---- MODULE Spec2Model ----
(***************************************************************************)
(* Model of the signal evaluation core of calmcrypto-benchmark:            *)
(* the metrics library (src/signal_eval/metrics), the composite scorer and *)
(* the SignalEvaluator (src/signal_eval/evaluator.py), and the two MCP     *)
(* tools that call it (src/mcp/backend/calmcrypto_tools).                  *)
(*                                                                         *)
(* Numbers.  Python floats are fixed point numbers in thousandths          *)
(* (One = 1.0); a composite score is a sum of weight * component and is    *)
(* kept exactly, in millionths.  p-values are in units of 1/10000.  NaN    *)
(* is a value outside every range; the arithmetic and the comparisons      *)
(* below treat it as IEEE does (it propagates, and every comparison with   *)
(* it is false).                                                           *)
(*                                                                         *)
(* Series.  What pandas/numpy/statsmodels compute from a series            *)
(* (row counts after concat(..).dropna(), correlations, p-values, signs)   *)
(* is given as the "frame" each estimator works on; everything the         *)
(* repository's own code does with those values is computed here.          *)
(***************************************************************************)
EXTENDS Integers, Sequences, FiniteSets, TLC

VARIABLES
    config,           \* SignalEvaluator.config (Config dataclass)
    HAS_STATSMODELS,  \* granger.py module flag
    quicksort_ties,   \* where the installed numpy's quicksort leaves equal keys
    signals,          \* SignalEvaluator.signals: dict name -> series, in insertion order
    results,          \* SignalEvaluator.results: dict name -> result
    call,             \* the last call made: its name and arguments
    ret,              \* what that call returned
    sys_stdout,       \* sys.stdout of the server process: 0, the stream installed
                      \* before a batch, or a, the StringIO of asset a's worker
    futures,          \* benchmark_all_assets: per asset of the batch, where its
                      \* process_asset call stands and its locals
    completed_count,  \* benchmark_all_assets: nonlocal completed_count
    count_lock,       \* benchmark_all_assets: count_lock, 0 or the asset holding it
    bench,            \* benchmark_all_assets: the calling thread's position and lists
    log               \* the assets of the progress lines process_asset has logged

poolVars == <<sys_stdout, futures, completed_count, count_lock, bench, log>>
vars == <<config, HAS_STATSMODELS, quicksort_ties, signals, results, call, ret, poolVars>>

\* no batch is running
NoBatch ==
    /\ sys_stdout = 0
    /\ futures = <<>>
    /\ completed_count = 0
    /\ count_lock = 0
    /\ bench = [pc |-> "idle"]
    /\ log = <<>>

-----------------------------------------------------------------------------
(* Floats *)

One == 1000
NaN == -1000000000

IsNaN(x) == x = NaN

\* a < b, a > b on floats: false when either side is NaN
FLt(a, b) == ~IsNaN(a) /\ ~IsNaN(b) /\ a < b
FGt(a, b) == FLt(b, a)

FAbs(x) == IF IsNaN(x) THEN NaN ELSE IF x < 0 THEN -x ELSE x
FAdd(a, b) == IF IsNaN(a) \/ IsNaN(b) THEN NaN ELSE a + b
FSub(a, b) == IF IsNaN(a) \/ IsNaN(b) THEN NaN ELSE a - b
\* product of two fixed point numbers, kept exactly (the unit is the product of the units)
FMulExact(a, b) == IF IsNaN(a) \/ IsNaN(b) THEN NaN ELSE a * b
\* a / b for b > 0, the numerator and the quotient in the same unit, b in thousandths
FDiv(a, b) ==
    IF IsNaN(a) \/ IsNaN(b) THEN NaN
    ELSE IF a >= 0 THEN (a * One) \div b ELSE -(((-a) * One) \div b)

\* Python's builtin min(a, b) and max(a, b): the first argument unless the second
\* compares strictly smaller (larger); with a NaN the comparison is false.
PyMin(a, b) == IF FLt(b, a) THEN b ELSE a
PyMax(a, b) == IF FGt(b, a) THEN b ELSE a

RECURSIVE SumSeq(_)
SumSeq(s) == IF s = <<>> THEN 0 ELSE Head(s) + SumSeq(Tail(s))

-----------------------------------------------------------------------------
(* Metrics library *)

\* what a call that raised an exception "returns"
Raised == [raised |-> TRUE]

\* ---- information_coefficient.py ------------------------------------------
\* frame: [rows, pearson, spearman, ic_mean, ic_std]: the rows of
\* concat([signal, fwd_ret]).dropna() and what pandas computes on them

ICSentinel ==
    [raised |-> FALSE, pearson_ic |-> NaN, spearman_ic |-> NaN, ic_ir |-> NaN,
     ic_mean |-> NaN, ic_std |-> NaN, rolling_ic_len |-> 0]

calculate_ic(frame, rolling_window) ==
    IF frame.rows < rolling_window THEN ICSentinel
    ELSE [raised |-> FALSE,
          pearson_ic |-> frame.pearson,
          spearman_ic |-> frame.spearman,
          ic_ir |-> IF FGt(frame.ic_std, 0) THEN FDiv(frame.ic_mean, frame.ic_std) ELSE 0,
          ic_mean |-> frame.ic_mean,
          ic_std |-> frame.ic_std,
          rolling_ic_len |-> frame.rows]

\* ---- lead_lag.py ---------------------------------------------------------
\* frame: [rows, corr]: the rows of concat([indicator, returns]).dropna() and
\* corr[lag], the correlation pandas computes for each lag

LeadLagSentinel ==
    [raised |-> FALSE, best_lag |-> 0, best_correlation |-> NaN,
     lead_lag_score |-> 0, correlation_len |-> 0]

\* idxmax keeping the last of the lags that hold the largest |correlation|
RECURSIVE IdxMaxAbsLast(_, _, _, _)
IdxMaxAbsLast(corr, lag, hi, best) ==
    IF lag > hi THEN best
    ELSE LET c == FAbs(corr[lag])
             next == IF IsNaN(c) THEN best
                     ELSE IF ~best.found THEN [found |-> TRUE, lag |-> lag]
                     ELSE IF c >= FAbs(corr[best.lag]) THEN [found |-> TRUE, lag |-> lag]
                     ELSE best
         IN IdxMaxAbsLast(corr, lag + 1, hi, next)

\* df['correlation'].abs().idxmax() over the lags lag..hi scanned in ascending
\* order: the first lag holding the largest |correlation|, NaN skipped
RECURSIVE IdxMaxAbs(_, _, _, _)
IdxMaxAbs(corr, lag, hi, best) ==
    IF lag > hi THEN best
    ELSE LET c == FAbs(corr[lag])
             next == IF IsNaN(c) THEN best
                     ELSE IF ~best.found THEN [found |-> TRUE, lag |-> lag]
                     ELSE IF c > FAbs(corr[best.lag]) THEN [found |-> TRUE, lag |-> lag]
                     ELSE best
         IN IdxMaxAbs(corr, lag + 1, hi, next)

\* the score with best_lag / max_lag as an integer division
LeadScoreFloorDiv(best_lag, best_correlation, max_lag) ==
    IF best_lag > 0 /\ ~IsNaN(best_correlation)
    THEN (FAbs(best_correlation) * (1 + best_lag \div max_lag)) \div 2
    ELSE IF best_lag = 0
    THEN (IF ~IsNaN(best_correlation) THEN (FAbs(best_correlation) * 3) \div 10 ELSE 0)
    ELSE (IF ~IsNaN(best_correlation) THEN FAbs(best_correlation) \div 10 ELSE 0)

\* lines 66-77: the score before the cap
LeadScore(best_lag, best_correlation, max_lag) ==
    IF best_lag > 0 /\ ~IsNaN(best_correlation)
    THEN (FAbs(best_correlation) * (max_lag + best_lag)) \div (2 * max_lag)
    ELSE IF best_lag = 0
    THEN (IF ~IsNaN(best_correlation) THEN (FAbs(best_correlation) * 3) \div 10 ELSE 0)
    ELSE (IF ~IsNaN(best_correlation) THEN FAbs(best_correlation) \div 10 ELSE 0)

\* lead_lag_analysis without the length guard of lines 35-41
lead_lag_analysis_unguarded(frame, max_lag) ==
    LET best == IdxMaxAbs(frame.corr, -max_lag, max_lag, [found |-> FALSE, lag |-> 0])
    IN IF ~best.found THEN Raised
       ELSE [raised |-> FALSE,
             best_lag |-> best.lag,
             best_correlation |-> frame.corr[best.lag],
             lead_lag_score |->
                 PyMin(LeadScore(best.lag, frame.corr[best.lag], max_lag), One),
             correlation_len |-> 2 * max_lag + 1]

lead_lag_analysis(frame, max_lag) ==
    IF frame.rows < max_lag * 2 THEN LeadLagSentinel
    ELSE LET best == IdxMaxAbs(frame.corr, -max_lag, max_lag, [found |-> FALSE, lag |-> 0])
         IN \* every correlation NaN: idxmax has no label and df.loc[best_idx] raises
            IF ~best.found THEN Raised
            ELSE [raised |-> FALSE,
                  best_lag |-> best.lag,
                  best_correlation |-> frame.corr[best.lag],
                  lead_lag_score |->
                      PyMin(LeadScore(best.lag, frame.corr[best.lag], max_lag), One),
                  correlation_len |-> 2 * max_lag + 1]

\* ---- hit_rate.py ---------------------------------------------------------
\* aligned: the rows of concat([signal_direction, actual_direction]).dropna(),
\* as the number of rows of each kind <<sig_dir, act_dir>>; the hit rate is a
\* mean and two sums over the rows, so the order of the rows plays no part.

Dir == {-1, 0, 1}
RowKinds == Dir \X Dir

RECURSIVE CountRows(_, _)
CountRows(aligned, kinds) ==
    IF kinds = {} THEN 0
    ELSE LET k == CHOOSE x \in kinds : TRUE
         IN aligned[k] + CountRows(aligned, kinds \ {k})

MinHitRows == 10

HitRateSentinel ==
    [raised |-> FALSE, overall_hit_rate |-> NaN, hit_rate_bullish |-> NaN,
     hit_rate_bearish |-> NaN, total_signals |-> 0]

\* a flat direction never counted as a hit
CorrectNonZero(k) == k[1] = k[2] /\ k[1] # 0

\* correct = (sig_dir == act_dir)
Correct(k) == k[1] = k[2]

\* calculate_hit_rate(signal, returns) with the default threshold 0, as the
\* evaluator calls it
calculate_hit_rate(aligned) ==
    LET n == CountRows(aligned, RowKinds)
        correct == CountRows(aligned, {k \in RowKinds : Correct(k)})
        up == CountRows(aligned, {k \in RowKinds : k[1] > 0})
        down == CountRows(aligned, {k \in RowKinds : k[1] < 0})
        up_correct == CountRows(aligned, {k \in RowKinds : Correct(k) /\ k[1] > 0})
        down_correct == CountRows(aligned, {k \in RowKinds : Correct(k) /\ k[1] < 0})
    IN IF n < MinHitRows THEN HitRateSentinel
       ELSE [raised |-> FALSE,
             overall_hit_rate |-> IF n > 0 THEN FDiv(correct * One, n * One) ELSE NaN,
             hit_rate_bullish |-> IF up > 0 THEN FDiv(up_correct * One, up * One) ELSE NaN,
             hit_rate_bearish |-> IF down > 0 THEN FDiv(down_correct * One, down * One) ELSE NaN,
             total_signals |-> n]

\* calculate_hit_rate(signal, returns, threshold): aligned as above; kept, the
\* rows of aligned where returns.shift(-1).abs() > threshold, by kind
calculate_hit_rate_threshold(aligned, threshold, kept) ==
    IF CountRows(aligned, RowKinds) < MinHitRows THEN HitRateSentinel
    ELSE LET scored == IF threshold > 0 THEN kept ELSE aligned
             n == CountRows(scored, RowKinds)
             correct == CountRows(scored, {k \in RowKinds : Correct(k)})
             up == CountRows(scored, {k \in RowKinds : k[1] > 0})
             down == CountRows(scored, {k \in RowKinds : k[1] < 0})
             up_correct == CountRows(scored, {k \in RowKinds : Correct(k) /\ k[1] > 0})
             down_correct == CountRows(scored, {k \in RowKinds : Correct(k) /\ k[1] < 0})
         IN [raised |-> FALSE,
             overall_hit_rate |-> IF n > 0 THEN FDiv(correct * One, n * One) ELSE NaN,
             hit_rate_bullish |-> IF up > 0 THEN FDiv(up_correct * One, up * One) ELSE NaN,
             hit_rate_bearish |-> IF down > 0 THEN FDiv(down_correct * One, down * One) ELSE NaN,
             total_signals |-> n]

\* ---- granger.py ----------------------------------------------------------
\* frame: [rows, test, p]: the rows of concat([returns, indicator]).dropna(),
\* whether grangercausalitytests raises ("raise") or returns ("ok"), and p[lag],
\* the ssr_ftest p-value of each lag, in units of 1/10000

POne == 10000

GrangerSentinel(error) ==
    [raised |-> FALSE, best_lag |-> 0, best_p_value |-> POne, significant |-> FALSE,
     granger_score |-> 0, n_p_values |-> 0, error |-> error]

\* -log10(p), in thousandths, for the p-values the model draws
NegLog10(p) ==
    CASE p = 1 -> 4000
      [] p = 50 -> 2301
      [] p = 100 -> 2000
      [] p = 300 -> 1523
      [] p = 499 -> 1302
      [] p = 500 -> 1301
      [] p = 1000 -> 1000
      [] p = 5000 -> 301
      [] p = 10000 -> 0

\* min(p_values, key=p_values.get) over the lags lag..hi: Python keeps the first
\* key and replaces it only by one whose value compares strictly smaller
RECURSIVE ArgMinP(_, _, _, _)
ArgMinP(p, lag, hi, best) ==
    IF lag > hi THEN best
    ELSE ArgMinP(p, lag + 1, hi, IF FLt(p[lag], p[best]) THEN lag ELSE best)

\* lines 86-91 without the cap min(.., 1.0)
GrangerScoreUncapped(best_p_value) ==
    IF FGt(best_p_value, 0)
    THEN FDiv(NegLog10(best_p_value), 2 * One)
    ELSE One

\* lines 86-91
GrangerScore(best_p_value) ==
    IF FGt(best_p_value, 0)
    THEN PyMin(FDiv(NegLog10(best_p_value), 2 * One), One)
    ELSE One

\* the literal 0.05 of line 96
SignificanceLiteral == 500

\* line 96: 'significant': best_p_value < 0.05
Significant(best_p_value) == FLt(best_p_value, SignificanceLiteral)

\* granger_test without the flag test of line 42 and the try/except of 67-109
granger_test_unguarded(frame, max_lag) ==
    IF frame.rows < max_lag * 3 THEN GrangerSentinel("")
    ELSE IF ~HAS_STATSMODELS \/ frame.test = "raise"
         THEN [GrangerSentinel("exception") EXCEPT !.raised = TRUE]
    ELSE LET best_lag == ArgMinP(frame.p, 1, max_lag, 1)
             best_p_value == frame.p[best_lag]
         IN [raised |-> FALSE,
             best_lag |-> best_lag,
             best_p_value |-> best_p_value,
             significant |-> Significant(best_p_value),
             granger_score |-> GrangerScore(best_p_value),
             n_p_values |-> max_lag,
             error |-> ""]

granger_test(frame, max_lag) ==
    IF ~HAS_STATSMODELS THEN GrangerSentinel("statsmodels not installed")
    ELSE IF frame.rows < max_lag * 3 THEN GrangerSentinel("")
    ELSE IF frame.test = "raise" THEN GrangerSentinel("exception")
    ELSE LET best_lag == ArgMinP(frame.p, 1, max_lag, 1)
             best_p_value == frame.p[best_lag]
         IN [raised |-> FALSE,
             best_lag |-> best_lag,
             best_p_value |-> best_p_value,
             significant |-> Significant(best_p_value),
             granger_score |-> GrangerScore(best_p_value),
             n_p_values |-> max_lag,
             error |-> ""]

\* ---- rolling_power.py ---------------------------------------------------
\* frame: [rows, full, score, latest]: the rows of
\* concat([indicator, fwd_returns]).dropna() and, of the frame pandas builds when
\* there are at least `window` of them: full, the number of rows with no missing
\* column; score, the values of signal_score.dropna(); latest, the last row with
\* no missing column

NoLatest == [rolling_ic |-> NaN, rolling_hit_rate |-> NaN, signal_score |-> NaN]

rolling_signal_quality(frame, window) ==
    IF frame.rows < window
    THEN [index_len |-> frame.rows, full |-> 0, score |-> <<>>, latest |-> NoLatest]
    ELSE [index_len |-> frame.rows, full |-> frame.full, score |-> frame.score,
          latest |-> frame.latest]

\* an ic_trend: the fraction num/den (den > 0), or NaN
TrendNaN == [nan |-> TRUE, num |-> 0, den |-> 1]

PowerSentinel ==
    [raised |-> FALSE, current_ic |-> NaN, current_hit_rate |-> NaN,
     current_score |-> NaN, ic_trend |-> TrendNaN, is_improving |-> FALSE]

\* s.iloc[a:b] with Python's negative positions; the result as the positions
\* lo..hi (1-based, empty when lo > hi) of s
SliceLo(len, a) == IF a < 0 THEN (IF len + a < 0 THEN 0 ELSE len + a) + 1
                   ELSE (IF a > len THEN len ELSE a) + 1
SliceHi(len, b) == IF b < 0 THEN (IF len + b < 0 THEN 0 ELSE len + b)
                   ELSE (IF b > len THEN len ELSE b)

RECURSIVE SumRange(_, _, _)
SumRange(s, lo, hi) == IF lo > hi THEN 0 ELSE s[lo] + SumRange(s, lo + 1, hi)

TrendMinRows == 20

\* the trend with -n // 10 read as -(n // 10)
PowerTrendTruncated(score, n) ==
    LET len == Len(score)
        rlo == SliceLo(len, 0 - (n \div 10))
        plo == SliceLo(len, 0 - (n \div 5))
        phi == SliceHi(len, 0 - (n \div 10))
        rlen == len - rlo + 1
        plen == phi - plo + 1
    IN IF rlen <= 0 \/ plen <= 0 THEN [nan |-> TRUE, num |-> 0, den |-> 1]
       ELSE [nan |-> FALSE,
             num |-> SumRange(score, rlo, len) * plen - SumRange(score, plo, phi) * rlen,
             den |-> rlen * plen]

\* lines 91-100; -n // 10 is Python's floor division of -n.  The two means are
\* compared exactly; the mean of an empty segment is NaN.
PowerTrend(score, n) ==
    LET len == Len(score)
        rlo == SliceLo(len, (0 - n) \div 10)
        plo == SliceLo(len, (0 - n) \div 5)
        phi == SliceHi(len, (0 - n) \div 10)
        rlen == len - rlo + 1
        plen == phi - plo + 1
    IN IF rlen <= 0 \/ plen <= 0 THEN TrendNaN
       ELSE [nan |-> FALSE,
             num |-> SumRange(score, rlo, len) * plen - SumRange(score, plo, phi) * rlen,
             den |-> rlen * plen]

get_current_power_stats(rolling_df) ==
    IF rolling_df.index_len = 0 \/ rolling_df.full = 0 THEN PowerSentinel
    ELSE LET n == rolling_df.full
             ic_trend == IF n > TrendMinRows THEN PowerTrend(rolling_df.score, n) ELSE TrendNaN
         IN [raised |-> FALSE,
             current_ic |-> rolling_df.latest.rolling_ic,
             current_hit_rate |-> rolling_df.latest.rolling_hit_rate,
             current_score |-> rolling_df.latest.signal_score,
             ic_trend |-> ic_trend,
             is_improving |-> IF n > TrendMinRows
                              THEN ~ic_trend.nan /\ ic_trend.num > 0 ELSE FALSE]

-----------------------------------------------------------------------------
(* Config *)

\* Config.forward_period_labels: the label of one horizon, as <<number, unit>>
PeriodLabel(p) ==
    LET minutes == p * 5
    IN IF minutes < 60 THEN <<minutes, "min">>
       ELSE IF minutes < 1440 THEN <<minutes \div 60, "hr">>
       ELSE <<minutes \div 1440, "day">>

-----------------------------------------------------------------------------
(* Composite scorer *)

\* the isnan test left out
NanToZeroSkipped(x) == x

\* if np.isnan(x): x = 0
NanToZero(x) == IF IsNaN(x) THEN 0 ELSE x
\* if np.isnan(hit_rate): hit_rate = 0.5
NanToHalf(x) == IF IsNaN(x) THEN One \div 2 ELSE x

\* weights.get(key, 0)
WeightOf(weights, key) == IF key \in DOMAIN weights THEN weights[key] ELSE 0

ComponentKeys == <<"ic", "ic_ir", "hit_rate", "lead_lag", "granger">>

\* the hit-rate component taken from the hit rate itself, not the effective one
ComponentsRawHitRate(metrics) ==
    LET spearman == NanToZero(metrics.best_spearman_ic)
        ic_ir == NanToZero(metrics.best_ic_ir)
        hit_rate == NanToHalf(metrics.hit_rate)
    IN [ic |-> PyMin(FDiv(FAbs(spearman), 300), One),
        ic_ir |-> PyMin(FDiv(PyMax(ic_ir, 0), 2 * One), One),
        hit_rate |-> FMulExact(FSub(hit_rate, One \div 2), 2),
        lead_lag |-> NanToZero(metrics.lead_lag_score),
        granger |-> NanToZero(metrics.granger_score)]

\* the five components, each normalised before it is weighted
Components(metrics) ==
    LET spearman == NanToZero(metrics.best_spearman_ic)
        ic_ir == NanToZero(metrics.best_ic_ir)
        hit_rate == NanToHalf(metrics.hit_rate)
        effective_hit_rate == PyMax(hit_rate, FSub(One, hit_rate))
    IN [ic |-> PyMin(FDiv(FAbs(spearman), 300), One),
        ic_ir |-> PyMin(FDiv(PyMax(ic_ir, 0), 2 * One), One),
        hit_rate |-> FMulExact(FSub(effective_hit_rate, One \div 2), 2),
        lead_lag |-> NanToZero(metrics.lead_lag_score),
        granger |-> NanToZero(metrics.granger_score)]

RECURSIVE WeightedSum(_, _, _)
WeightedSum(weights, components, i) ==
    IF i > Len(ComponentKeys) THEN 0
    ELSE FAdd(FMulExact(WeightOf(weights, ComponentKeys[i]), components[ComponentKeys[i]]),
              WeightedSum(weights, components, i + 1))

\* SignalEvaluator._calculate_composite_score; the score is in millionths
calculate_composite_score(metrics, weights) ==
    WeightedSum(weights, Components(metrics), 1)

-----------------------------------------------------------------------------
(* SignalEvaluator *)

\* a by_period that keeps an entry per horizon
DictAppend(d, label, entry) == Append(d, entry)

\* result['by_period'][label] = entry: a dict keeps the position of a key it
\* already holds and appends a new one
RECURSIVE DictSet(_, _, _)
DictSet(d, label, entry) ==
    IF d = <<>> THEN <<entry>>
    ELSE IF Head(d).label = label THEN <<entry>> \o Tail(d)
    ELSE <<Head(d)>> \o DictSet(Tail(d), label, entry)

\* lines 72-85: the per-period loop over fwd_periods[i..]
RECURSIVE ByPeriod(_, _, _, _)
ByPeriod(series, cfg, i, acc) ==
    IF i > Len(cfg.forward_periods) THEN acc
    ELSE LET period == cfg.forward_periods[i]
             ic_result == calculate_ic(series.ic[period], cfg.rolling_window)
             entry == [label |-> PeriodLabel(period), period |-> period,
                       pearson_ic |-> ic_result.pearson_ic,
                       spearman_ic |-> ic_result.spearman_ic,
                       ic_ir |-> ic_result.ic_ir]
         IN ByPeriod(series, cfg, i + 1, DictSet(acc, entry.label, entry))

\* the keys of lines 111, 115 and 119
AbsKey(x) == IF ~IsNaN(x) THEN FAbs(x) ELSE 0
IrKey(x) == IF ~IsNaN(x) THEN x ELSE -999 * One

\* Python's max(values, key=...) over a non-empty sequence: the first value
\* whose key is the largest
RECURSIVE MaxByAbsKey(_, _)
MaxByAbsKey(values, best) ==
    IF values = <<>> THEN best
    ELSE MaxByAbsKey(Tail(values),
                     IF AbsKey(Head(values)) > AbsKey(best) THEN Head(values) ELSE best)

RECURSIVE MaxByIrKey(_, _)
MaxByIrKey(values, best) ==
    IF values = <<>> THEN best
    ELSE MaxByIrKey(Tail(values),
                    IF IrKey(Head(values)) > IrKey(best) THEN Head(values) ELSE best)

\* the raw hit rate reported as the effective one
EffectiveHitRateRaw(hit_rate) == IF ~IsNaN(hit_rate) THEN hit_rate ELSE One \div 2

\* a hit rate of exactly 0.5 taken as contrarian
IsContrarianInclusive(hit_rate) ==
    IF ~IsNaN(hit_rate) THEN ~FGt(hit_rate, One \div 2) ELSE FALSE

\* lines 132-134
IsContrarian(hit_rate) == IF ~IsNaN(hit_rate) THEN FLt(hit_rate, One \div 2) ELSE FALSE
EffectiveHitRate(hit_rate) ==
    IF ~IsNaN(hit_rate) THEN PyMax(hit_rate, FSub(One, hit_rate)) ELSE One \div 2

\* lines 105-141: result['metrics'], from the estimators' records
AggregateMetrics(by_period, lead_lag_result, hit_rate_result, granger_result, power_stats) ==
    LET pearsons == [i \in 1..Len(by_period) |-> by_period[i].pearson_ic]
        spearmans == [i \in 1..Len(by_period) |-> by_period[i].spearman_ic]
        ic_irs == [i \in 1..Len(by_period) |-> by_period[i].ic_ir]
    IN [best_pearson_ic |-> MaxByAbsKey(Tail(pearsons), Head(pearsons)),
        best_spearman_ic |-> MaxByAbsKey(Tail(spearmans), Head(spearmans)),
        best_ic_ir |-> MaxByIrKey(Tail(ic_irs), Head(ic_irs)),
        best_lag |-> lead_lag_result.best_lag,
        lead_lag_correlation |-> lead_lag_result.best_correlation,
        lead_lag_score |-> lead_lag_result.lead_lag_score,
        hit_rate |-> hit_rate_result.overall_hit_rate,
        hit_rate_bullish |-> hit_rate_result.hit_rate_bullish,
        hit_rate_bearish |-> hit_rate_result.hit_rate_bearish,
        total_signals |-> hit_rate_result.total_signals,
        is_contrarian |-> IsContrarian(hit_rate_result.overall_hit_rate),
        effective_hit_rate |-> EffectiveHitRate(hit_rate_result.overall_hit_rate),
        granger_best_lag |-> granger_result.best_lag,
        granger_p_value |-> granger_result.best_p_value,
        granger_significant |-> granger_result.significant,
        granger_score |-> granger_result.granger_score,
        current_ic |-> power_stats.current_ic,
        current_hit_rate |-> power_stats.current_hit_rate,
        current_score |-> power_stats.current_score,
        is_improving |-> power_stats.is_improving]

\* lines 64-68 and 143-155: the result dict around its metrics
SignalResult(name, metrics, by_period, rolling_result, weights) ==
    [raised |-> FALSE,
     signal_name |-> name,
     metrics |-> metrics,
     by_period |-> by_period,
     composite_score |-> calculate_composite_score(metrics, weights),
     rolling_data |-> rolling_result]

\* lines 86-155, from the records the estimators returned
AfterEstimators(name, cfg, by_period, lead_lag_result, hit_rate_result, granger_result, rolling_result) ==
    IF lead_lag_result.raised THEN Raised
    \* max() of an empty sequence raises ValueError
    ELSE IF by_period = <<>> THEN Raised
    ELSE SignalResult(name,
                      AggregateMetrics(by_period, lead_lag_result, hit_rate_result,
                                       granger_result,
                                       get_current_power_stats(rolling_result)),
                      by_period, rolling_result, cfg.weights)

\* SignalEvaluator.evaluate_signal(name) for a registered name whose series is
\* `series`; Raised when a step raises
evaluate_signal(name, series, cfg) ==
    AfterEstimators(name, cfg,
                    ByPeriod(series, cfg, 1, <<>>),
                    lead_lag_analysis(series.lead_lag, cfg.max_lag),
                    calculate_hit_rate(series.hit),
                    granger_test(series.granger, cfg.granger_max_lag),
                    rolling_signal_quality(series.rolling, cfg.rolling_window))

\* the flattened row of lines 222-226
Row(result) ==
    [signal_name |-> result.signal_name, composite_score |-> result.composite_score]
        @@ result.metrics

\* a row whose score also counts the rows collected before it: state shared
\* between the evaluations of one run
CollectShared(acc, name, result) ==
    [rows |-> Append(acc.rows,
                     [Row(result) EXCEPT !.composite_score = @ + Len(acc.rows)]),
     results |-> (name :> result) @@ acc.results,
     raised |-> FALSE]

\* lines 218-227: the result is stored and its row collected
Collect(acc, name, result) ==
    [rows |-> Append(acc.rows, Row(result)),
     results |-> (name :> result) @@ acc.results,
     raised |-> FALSE]

\* the outcome of one turn of the loop, without and with its except clause
Uncaught(acc, name, result) ==
    IF result.raised THEN [acc EXCEPT !.raised = TRUE] ELSE Collect(acc, name, result)

Caught(acc, name, result) ==
    IF result.raised
    THEN acc     \* except Exception: print(...); continue
    ELSE Collect(acc, name, result)

\* the loop without its try/except: the exception leaves evaluate_all
LoopStepUncaught(acc, sig, cfg) ==
    Uncaught(acc, sig.name, evaluate_signal(sig.name, sig.series, cfg))

\* one turn of the loop of lines 216-230 for the registered signal sig
\* ([name, series]); acc: the rows collected so far, self.results, and whether
\* an exception left the loop
LoopStep(acc, sig, cfg) ==
    Caught(acc, sig.name, evaluate_signal(sig.name, sig.series, cfg))

RECURSIVE Loop(_, _, _, _)
Loop(sigs, cfg, i, acc) ==
    IF i > Len(sigs) \/ acc.raised THEN acc
    ELSE Loop(sigs, cfg, i + 1, LoopStep(acc, sigs[i], cfg))

\* a before b in a descending sort with NaN last
Before(a, b) == IsNaN(b) \/ (~IsNaN(a) /\ a >= b)

Injective(f) == \A i, j \in DOMAIN f : f[i] = f[j] => i = j

\* sort_values without ascending=False
sort_values_ascending(rows) ==
    LET n == Len(rows)
    IN {t \in {[i \in 1..n |-> rows[f[i]]] : f \in {g \in [1..n -> 1..n] : Injective(g)}} :
           \A i \in 1..(n - 1) : Before(t[i + 1].composite_score, t[i].composite_score)}

\* the sort as a choice made anew at every call among the descending orders
sort_values_any(rows) ==
    LET n == Len(rows)
    IN {t \in {[i \in 1..n |-> rows[f[i]]] : f \in {g \in [1..n -> 1..n] : Injective(g)}} :
           \A i \in 1..(n - 1) : Before(t[i].composite_score, t[i + 1].composite_score)}

\* what a quicksort build does with rows of equal key: it is a function of its
\* input, and leaves them as they came ("kept", which a stable sort guarantees)
\* or not ("reversed")
TieOrders == {"kept", "reversed"}

\* the rows f[1], f[2], .. are descending by score, equal scores in the order
\* of the build
SortedBy(rows, f) ==
    \A i, j \in DOMAIN f :
        i < j =>
            /\ Before(rows[f[i]].composite_score, rows[f[j]].composite_score)
            /\ rows[f[i]].composite_score = rows[f[j]].composite_score =>
                   IF quicksort_ties = "kept" THEN f[i] < f[j] ELSE f[i] > f[j]

\* df.sort_values('composite_score', ascending=False): the default kind is
\* 'quicksort', which is not stable; the set holds the one outcome of the
\* build in use
sort_values(rows) ==
    LET n == Len(rows)
    IN {[i \in 1..n |-> rows[f[i]]] :
           f \in {g \in [1..n -> 1..n] : Injective(g) /\ SortedBy(rows, g)}}

\* df['rank'] = range(1, len(df) + 1); df.set_index('rank')
WithRank(t) == [i \in 1..Len(t) |-> t[i] @@ [rank |-> i]]

\* lines 232-238 without the df.empty guard
AssembleUnguarded(rows) ==
    IF rows = <<>> THEN {[raised |-> TRUE, table |-> <<>>]}       \* KeyError
    ELSE {[raised |-> FALSE, table |-> WithRank(t)] : t \in sort_values(rows)}

\* lines 232-238: what the collected rows become.  sort_values on the frame of
\* no rows (and no columns) would raise KeyError, hence the guard.
Assemble(rows) ==
    IF rows = <<>> THEN {[raised |-> FALSE, table |-> <<>>]}      \* df.empty
    ELSE {[raised |-> FALSE, table |-> WithRank(t)] : t \in sort_values(rows)}

\* lines 232-238 after the loop ended in acc
AfterLoop(acc) ==
    IF acc.raised
    THEN {[raised |-> TRUE, table |-> <<>>, results |-> acc.results]}
    ELSE {[raised |-> a.raised, table |-> a.table, results |-> acc.results] :
             a \in Assemble(acc.rows)}

\* evaluate_all on an evaluator whose results dict is emptied at each run
evaluate_all_fresh(sigs, cfg, res) ==
    AfterLoop(Loop(sigs, cfg, 1, [rows |-> <<>>, results |-> <<>>, raised |-> FALSE]))

\* SignalEvaluator.evaluate_all on the signals sigs and the results dict res:
\* the set of its possible outcomes [raised, table, results]
evaluate_all(sigs, cfg, res) ==
    AfterLoop(Loop(sigs, cfg, 1, [rows |-> <<>>, results |-> res, raised |-> FALSE]))

\* a registry that appends an entry for every registration
PutSignalAppend(sigs, name, series) == Append(sigs, [name |-> name, series |-> series])

\* self.signals[name] = signal: a dict keeps the position of a key it holds
RECURSIVE PutSignal(_, _, _)
PutSignal(sigs, name, series) ==
    IF sigs = <<>> THEN <<[name |-> name, series |-> series]>>
    ELSE IF Head(sigs).name = name THEN <<[name |-> name, series |-> series]>> \o Tail(sigs)
    ELSE <<Head(sigs)>> \o PutSignal(Tail(sigs), name, series)

\* self.signals.update(batch), batch a dict given as its items in order
RECURSIVE UpdateSignals(_, _)
UpdateSignals(sigs, batch) ==
    IF batch = <<>> THEN sigs
    ELSE UpdateSignals(PutSignal(sigs, Head(batch).name, Head(batch).series), Tail(batch))

\* df.head(n) for n >= 0
HeadRows(t, n) == SubSeq(t, 1, IF n < Len(t) THEN n ELSE Len(t))

\* n = n or self.config.top_n: None and 0 are both false
OrTopN(n_given, n, top_n) == IF n_given /\ n # 0 THEN n ELSE top_n

\* SignalEvaluator.get_top_n(n) on the signals sigs and the results dict res:
\* the set of its possible outcomes [raised, table, results]
get_top_n(sigs, cfg, res, n_given, n) ==
    UNION {IF first.raised THEN {first}
           ELSE {[raised |-> o.raised,
                  table |-> HeadRows(o.table, OrTopN(n_given, n, cfg.top_n)),
                  results |-> o.results] : o \in evaluate_all(sigs, cfg, first.results)} :
           first \in IF res = <<>>      \* if not self.results: self.evaluate_all()
                     THEN evaluate_all(sigs, cfg, res)
                     ELSE {[raised |-> FALSE, table |-> <<>>, results |-> res]}}

-----------------------------------------------------------------------------
(* MCP tools *)

\* pandas' Series.max(): NaN skipped, NaN when nothing is left
RECURSIVE MaxSkipNaN(_, _)
MaxSkipNaN(values, best) ==
    IF values = <<>> THEN best
    ELSE MaxSkipNaN(Tail(values),
                    IF IsNaN(Head(values)) THEN best
                    ELSE IF IsNaN(best) \/ Head(values) > best THEN Head(values)
                    ELSE best)

RECURSIVE CountSignificant(_)
CountSignificant(t) ==
    IF t = <<>> THEN 0
    ELSE (IF Head(t).granger_significant THEN 1 ELSE 0) + CountSignificant(Tail(t))

\* signal_eval.py lines 93-130, from the outcome o of evaluate_all on the
\* tool's own evaluator
signal_eval_reply(o, top_n) ==
    IF o.raised THEN [kind |-> "error", rows |-> <<>>]            \* except Exception
    ELSE IF o.table = <<>> THEN [kind |-> "no_signals", rows |-> <<>>]   \* rankings.empty
    ELSE [kind |-> "csv", rows |-> HeadRows(o.table, top_n)]

\* benchmark.py lines 47-70, from the outcome o of evaluate_all on the
\* function's own evaluator; via: the return statement taken
benchmark_single_asset(o) ==
    IF o.raised THEN [via |-> "except", value |-> "None"]
    ELSE IF o.table = <<>> THEN [via |-> "empty", value |-> "None"]
    ELSE LET rankings == o.table
             top_row == rankings[1]
             n == Len(rankings)
         IN [via |-> "summary",
             value |->
               [best_composite_score |-> top_row.composite_score,
                best_signal |-> top_row.signal_name,
                avg_composite_score |->
                    SumSeq([i \in 1..n |-> rankings[i].composite_score]) \div n,
                significant_signals |-> CountSignificant(rankings),
                best_effective_hit_rate |->
                    MaxSkipNaN([i \in 1..n |-> rankings[i].effective_hit_rate], NaN),
                best_ic |->
                    MaxSkipNaN([i \in 1..n |-> FAbs(rankings[i].best_spearman_ic)], NaN),
                signals_evaluated |-> n]]

-----------------------------------------------------------------------------
(* Inputs *)

DefaultWeights ==
    [ic |-> 300, ic_ir |-> 250, hit_rate |-> 200, lead_lag |-> 150, granger |-> 100]

\* Config() with the windows and lags set by the caller to small values
SmallConfig ==
    [top_n |-> 2,
     forward_periods |-> <<1, 12>>,
     weights |-> DefaultWeights,
     rolling_window |-> 4,
     max_lag |-> 1,
     granger_max_lag |-> 2,
     granger_significance |-> 500,      \* 0.05, in the unit of the p-values
     composite_threshold |-> 0]

Periods == {1, 12}
LagRange == (-1)..1
PLags == 1..2

ZeroRows == [k \in RowKinds |-> 0]
RowsOf(kind, n) == [k \in RowKinds |-> IF k = kind THEN n ELSE 0]

ICFrame(rows, pearson, spearman, ic_mean, ic_std) ==
    [rows |-> rows, pearson |-> pearson, spearman |-> spearman,
     ic_mean |-> ic_mean, ic_std |-> ic_std]

NoRolling(rows) == [rows |-> rows, full |-> 0, score |-> <<>>, latest |-> NoLatest]

\* an empty series: no estimator has a row
SeriesEmpty ==
    [ic |-> [p \in Periods |-> ICFrame(0, NaN, NaN, NaN, NaN)],
     lead_lag |-> [rows |-> 0, corr |-> [l \in LagRange |-> NaN]],
     hit |-> ZeroRows,
     granger |-> [rows |-> 0, test |-> "raise", p |-> [l \in PLags |-> POne]],
     rolling |-> NoRolling(0)]

\* a series one row short of every estimator's minimum under SmallConfig
SeriesShort ==
    [ic |-> [p \in Periods |-> ICFrame(3, NaN, NaN, NaN, NaN)],
     lead_lag |-> [rows |-> 1, corr |-> [l \in LagRange |-> NaN]],
     hit |-> RowsOf(<<1, 1>>, 9),
     granger |-> [rows |-> 5, test |-> "raise", p |-> [l \in PLags |-> POne]],
     rolling |-> NoRolling(3)]

\* a constant series: enough rows, every correlation undefined
SeriesConstant ==
    [ic |-> [p \in Periods |-> ICFrame(12, NaN, NaN, NaN, NaN)],
     lead_lag |-> [rows |-> 12, corr |-> [l \in LagRange |-> NaN]],
     hit |-> RowsOf(<<0, 1>>, 12),
     granger |-> [rows |-> 12, test |-> "raise", p |-> [l \in PLags |-> POne]],
     rolling |-> NoRolling(12)]

\* a series that leads the price
SeriesStrong ==
    [ic |-> [p \in Periods |->
                IF p = 1 THEN ICFrame(12, 400, 300, 200, 100)
                ELSE ICFrame(4, 100, -150, 50, 100)],
     lead_lag |-> [rows |-> 12, corr |-> [l \in LagRange |-> IF l = 1 THEN 1000 ELSE 200]],
     hit |-> RowsOf(<<1, 1>>, 12),
     granger |-> [rows |-> 12, test |-> "ok", p |-> [l \in PLags |-> IF l = 1 THEN 1000 ELSE 100]],
     rolling |-> [rows |-> 12, full |-> 2, score |-> <<300, 400, 500>>,
                  latest |-> [rolling_ic |-> 300, rolling_hit_rate |-> 1000,
                              signal_score |-> 500]]]

\* a contrarian series the price leads
SeriesWeak ==
    [ic |-> [p \in Periods |-> ICFrame(12, -100, -90, -50, 100)],
     lead_lag |-> [rows |-> 12, corr |-> [l \in LagRange |-> IF l = -1 THEN -500 ELSE 100]],
     hit |-> [k \in RowKinds |-> IF k = <<1, -1>> THEN 8 ELSE IF k = <<-1, -1>> THEN 4 ELSE 0],
     granger |-> [rows |-> 12, test |-> "ok", p |-> [l \in PLags |-> 5000]],
     rolling |-> NoRolling(3)]

SeriesProfiles == {SeriesEmpty, SeriesShort, SeriesConstant, SeriesStrong, SeriesWeak}

MaxSignals == 2
Names == 1..MaxSignals

NoRet == [pending |-> TRUE]

-----------------------------------------------------------------------------
(* The evaluator and its callers *)

InitEval ==
    /\ config = SmallConfig
    /\ HAS_STATSMODELS \in BOOLEAN
    /\ quicksort_ties \in TieOrders
    /\ NoBatch
    /\ signals = <<>>
    /\ results = <<>>
    /\ call = [op |-> "init"]
    /\ ret = NoRet

\* SignalEvaluator.add_signal(name, series).  A run registers its signals and
\* then evaluates them (run_evaluation.py, the tools), so registration is
\* modelled up to the first evaluation.
AddSignal(name, series) ==
    /\ call.op \in {"init", "add_signal"}
    /\ signals' = PutSignal(signals, name, series)
    /\ call' = [op |-> "add_signal"]
    /\ ret' = NoRet
    /\ UNCHANGED <<config, HAS_STATSMODELS, quicksort_ties, results, poolVars>>

\* SignalEvaluator.evaluate_all()
EvaluateAll ==
    \E o \in evaluate_all(signals, config, results) :
        /\ results' = o.results
        /\ call' = [op |-> "evaluate_all"]
        /\ ret' = [raised |-> o.raised, table |-> o.table]
        /\ UNCHANGED <<config, HAS_STATSMODELS, quicksort_ties, signals, poolVars>>

TopNs == {1, MaxSignals}

\* the signal_eval tool, its registry holding the signals registered so far;
\* fetched: whether fetching the data and building the registry raised nothing
SignalEvalTool ==
    \E top_n \in TopNs, fetched \in BOOLEAN :
        /\ call' = [op |-> "signal_eval", top_n |-> top_n, fetched |-> fetched]
        /\ IF ~fetched THEN ret' = [kind |-> "error", rows |-> <<>>]
           ELSE \E o \in evaluate_all(signals, [config EXCEPT !.top_n = top_n], <<>>) :
                    ret' = signal_eval_reply(o, top_n)
        /\ UNCHANGED <<config, HAS_STATSMODELS, quicksort_ties, signals, results, poolVars>>

\* _benchmark_single_asset, likewise
BenchmarkSingleAsset ==
    \E fetched \in BOOLEAN :
        /\ call' = [op |-> "benchmark_single_asset", fetched |-> fetched]
        /\ IF ~fetched THEN ret' = [via |-> "except", value |-> "None"]
           ELSE \E o \in evaluate_all(signals, config, <<>>) :
                    ret' = benchmark_single_asset(o)
        /\ UNCHANGED <<config, HAS_STATSMODELS, quicksort_ties, signals, results, poolVars>>

NextEval ==
    \/ \E name \in Names, series \in SeriesProfiles : AddSignal(name, series)
    \/ EvaluateAll
    \/ SignalEvalTool
    \/ BenchmarkSingleAsset

SpecEval == InitEval /\ [][NextEval]_vars

-----------------------------------------------------------------------------
(* Properties of evaluate_all (SpecEval) *)

Succeeds(sig) == ~evaluate_signal(sig.name, sig.series, config).raised
SuccessNames == {signals[i].name : i \in {j \in 1..Len(signals) : Succeeds(signals[j])}}
TableNames(t) == {t[i].signal_name : i \in 1..Len(t)}
Position(name) == CHOOSE i \in 1..Len(signals) : signals[i].name = name
AfterEvaluateAll == call.op = "evaluate_all"

\* C1: the table evaluate_all returns has its rows in non-increasing
\* composite_score order and its rank index is exactly 1..N, N the number of
\* registered signals whose evaluation did not raise.
C1_SortedDenseRank ==
    AfterEvaluateAll =>
        /\ ~ret.raised
        /\ Len(ret.table) = Cardinality(SuccessNames)
        /\ \A i \in 1..Len(ret.table) : ret.table[i].rank = i
        /\ \A i \in 1..(Len(ret.table) - 1) :
               /\ ~IsNaN(ret.table[i].composite_score)
               /\ ~IsNaN(ret.table[i + 1].composite_score)
               /\ ret.table[i].composite_score >= ret.table[i + 1].composite_score

\* C1 witness: two signals registered in ascending score order come out reversed
C1_Witness ==
    /\ AfterEvaluateAll
    /\ Len(ret.table) = 2
    /\ ret.table[1].composite_score > ret.table[2].composite_score
    /\ Position(ret.table[1].signal_name) > Position(ret.table[2].signal_name)

\* C2: a signal whose evaluation raises is left out, every other registered
\* signal is still evaluated and in the table, wherever the failing signal was
\* registered, and evaluate_all does not raise.
C2_FailureSkipped ==
    AfterEvaluateAll =>
        /\ ~ret.raised
        /\ TableNames(ret.table) = SuccessNames
        /\ \A name \in SuccessNames : name \in DOMAIN results

\* C2 witness: the first registered signal failed and a later one is in the table
C2_Witness ==
    /\ AfterEvaluateAll
    /\ Len(signals) >= 2
    /\ ~Succeeds(signals[1])
    /\ Succeeds(signals[2])
    /\ signals[2].name \in TableNames(ret.table)

\* C3 (as claimed): signals with exactly equal composite scores are in the
\* table in the order in which they were registered.
C3_StableTies ==
    AfterEvaluateAll =>
        \A i, j \in 1..Len(ret.table) :
            (i < j /\ ret.table[i].composite_score = ret.table[j].composite_score)
                => Position(ret.table[i].signal_name) < Position(ret.table[j].signal_name)

\* every estimator of the series has fewer rows than its minimum
TooFew(series, cfg) ==
    /\ \A i \in 1..Len(cfg.forward_periods) :
           series.ic[cfg.forward_periods[i]].rows < cfg.rolling_window
    /\ series.lead_lag.rows < 2 * cfg.max_lag
    /\ CountRows(series.hit, RowKinds) < MinHitRows
    /\ series.granger.rows < 3 * cfg.granger_max_lag
    /\ series.rolling.rows < cfg.rolling_window

\* C6: for a registered signal with too few aligned rows for the estimators
\* (an empty series included) no estimator raises, each returns its sentinel
\* record, evaluate_signal returns a result, and evaluate_all has the signal in
\* its table.
C6_TooFewRowsSentinels ==
    \A i \in 1..Len(signals) :
        LET series == signals[i].series
            result == evaluate_signal(signals[i].name, series, config)
            granger == granger_test(series.granger, config.granger_max_lag)
            rolling == rolling_signal_quality(series.rolling, config.rolling_window)
        IN TooFew(series, config) =>
            /\ \A k \in 1..Len(config.forward_periods) :
                   calculate_ic(series.ic[config.forward_periods[k]], config.rolling_window)
                       = ICSentinel
            /\ lead_lag_analysis(series.lead_lag, config.max_lag) = LeadLagSentinel
            /\ calculate_hit_rate(series.hit) = HitRateSentinel
            /\ ~granger.raised /\ granger.best_lag = 0 /\ granger.best_p_value = POne
            /\ ~granger.significant /\ granger.granger_score = 0 /\ granger.n_p_values = 0
            /\ rolling.full = 0 /\ rolling.score = <<>>
            /\ get_current_power_stats(rolling) = PowerSentinel
            /\ ~result.raised
            /\ result.composite_score = 0
            /\ AfterEvaluateAll =>
                   \E r \in 1..Len(ret.table) :
                       /\ ret.table[r].signal_name = signals[i].name
                       /\ ret.table[r].composite_score = 0
                       /\ IsNaN(ret.table[r].hit_rate)
                       /\ ~ret.table[r].is_contrarian

\* C6 witness: an empty series and a short one, both ranked
C6_Witness ==
    /\ AfterEvaluateAll
    /\ Len(signals) = 2
    /\ signals[1].series = SeriesEmpty
    /\ signals[2].series = SeriesShort
    /\ Len(ret.table) = 2

\* C7: evaluate_all with no registered signal, or with every registered signal
\* failing, returns an empty table without raising, and the two callers see the
\* empty table and report no result instead of reading a first row.
C7_EmptyTable ==
    SuccessNames = {} =>
        /\ AfterEvaluateAll => (~ret.raised /\ ret.table = <<>>)
        /\ (call.op = "signal_eval" /\ call.fetched) => ret.kind = "no_signals"
        /\ (call.op = "benchmark_single_asset" /\ call.fetched) =>
               (ret.via = "empty" /\ ret.value = "None")

\* C7 witness: the benchmark function on a registry whose only signal fails
C7_Witness ==
    /\ call.op = "benchmark_single_asset"
    /\ call.fetched
    /\ Len(signals) = 1
    /\ SuccessNames = {}
    /\ ret.via = "empty"

-----------------------------------------------------------------------------
(* evaluate_signal on one series (SpecSignal) *)

\* weights: non-negative, summing to at most 1; the last one lacks two keys
WeightSets ==
    {DefaultWeights,
     [ic |-> 1000, ic_ir |-> 0, hit_rate |-> 0, lead_lag |-> 0, granger |-> 0],
     [hit_rate |-> 100, lead_lag |-> 400, granger |-> 400]}

RECURSIVE SumWeights(_, _)
SumWeights(weights, i) ==
    IF i > Len(ComponentKeys) THEN 0
    ELSE WeightOf(weights, ComponentKeys[i]) + SumWeights(weights, i + 1)

Significances == {100, 500, 1000}

ICFrames ==
    {ICFrame(3, NaN, NaN, NaN, NaN),            \* too short
     ICFrame(12, NaN, NaN, NaN, NaN),           \* constant series
     ICFrame(12, 1000, -1000, 600, 100),        \* perfect rank correlation, IC-IR 6
     ICFrame(12, 100, 150, -50, 100)}           \* negative IC-IR

LeadLagFrames ==
    {[rows |-> 1, corr |-> [l \in LagRange |-> NaN]],
     [rows |-> 12, corr |-> [l \in LagRange |-> NaN]],
     [rows |-> 12, corr |-> [l \in LagRange |-> IF l = 1 THEN 1000 ELSE 200]],
     [rows |-> 12, corr |-> [l \in LagRange |-> IF l = 0 THEN -1000 ELSE NaN]],
     [rows |-> 12, corr |-> [l \in LagRange |-> IF l = -1 THEN 1000 ELSE 1000]]}

HitFrames ==
    {ZeroRows,
     RowsOf(<<1, 1>>, 10),
     RowsOf(<<-1, 1>>, 11),
     [k \in RowKinds |-> IF k = <<1, 1>> THEN 6 ELSE IF k = <<0, -1>> THEN 4 ELSE 0]}

PFrame(rows, test, p1, p2) ==
    [rows |-> rows, test |-> test, p |-> [l \in PLags |-> IF l = 1 THEN p1 ELSE p2]]

GrangerFrames ==
    {PFrame(5, "ok", 100, 100),
     PFrame(12, "raise", 100, 100),
     PFrame(12, "ok", 5000, 1),
     PFrame(12, "ok", 300, 1000),
     PFrame(12, "ok", 500, 500),
     PFrame(12, "ok", 10000, 0),
     PFrame(12, "ok", NaN, 100)}

RollingFrames ==
    {NoRolling(3),
     [rows |-> 30, full |-> 22, score |-> [i \in 1..24 |-> 10 * i],
      latest |-> [rolling_ic |-> -200, rolling_hit_rate |-> 700, signal_score |-> 240]]}

SeriesInputs ==
    [ic : [Periods -> ICFrames], lead_lag : LeadLagFrames, hit : HitFrames,
     granger : GrangerFrames, rolling : RollingFrames]

InitSignal ==
    /\ \E w \in WeightSets, g \in Significances :
           config = [SmallConfig EXCEPT !.weights = w, !.granger_significance = g]
    /\ HAS_STATSMODELS \in BOOLEAN
    /\ quicksort_ties = "kept"
    /\ NoBatch
    /\ signals = <<>>
    /\ results = <<>>
    /\ \E series \in SeriesInputs : call = [op |-> "evaluate_signal", series |-> series]
    /\ ret = NoRet

\* SignalEvaluator.evaluate_signal(name) on the series drawn
EvaluateSignal ==
    /\ call.op = "evaluate_signal"
    /\ ret = NoRet
    /\ ret' = evaluate_signal(1, call.series, config)
    /\ UNCHANGED <<config, HAS_STATSMODELS, quicksort_ties, signals, results, call, poolVars>>

NextSignal == EvaluateSignal

SpecSignal == InitSignal /\ [][NextSignal]_vars

Evaluated == call.op = "evaluate_signal" /\ ret # NoRet /\ ~ret.raised

InUnit(x) == ~IsNaN(x) /\ 0 <= x /\ x <= One

\* C4: for every metrics record evaluate_signal builds and non-negative weights
\* summing to at most 1, each of the five components lies in [0,1] and the
\* composite score lies in [0, sum of the weights].
C4_ScoreBounded ==
    Evaluated =>
        LET c == Components(ret.metrics)
        IN /\ \A i \in 1..Len(ComponentKeys) : InUnit(c[ComponentKeys[i]])
           /\ InUnit(ret.metrics.lead_lag_score)
           /\ InUnit(ret.metrics.granger_score)
           /\ ~IsNaN(ret.composite_score)
           /\ 0 <= ret.composite_score
           /\ ret.composite_score <= SumWeights(config.weights, 1) * One

\* C4 witness: a signal whose five components are all 1 reaches the sum of the weights
C4_Witness ==
    /\ Evaluated
    /\ config.weights = DefaultWeights
    /\ ret.metrics.granger_p_value = 1
    /\ ret.composite_score = SumWeights(config.weights, 1) * One

\* C10 (as claimed): granger_significant is true exactly when the best p-value
\* is strictly below the configured Config.granger_significance.
C10_SignificanceFromConfig ==
    Evaluated =>
        (ret.metrics.granger_significant
            <=> FLt(ret.metrics.granger_p_value, config.granger_significance))

-----------------------------------------------------------------------------
(* The composite scorer on any metrics record (SpecScore) *)

\* the values each metric is drawn from
MetricValues ==
    [best_spearman_ic |-> {NaN, -1000, -150, 0, 300},
     best_ic_ir |-> {NaN, -500, 0, 1000, 3000},
     hit_rate |-> {NaN, 0, 400, 500, 600, 1000},
     lead_lag_score |-> {NaN, 0, 500, 1000},
     granger_score |-> {NaN, 0, 650, 1000}]

MetricInputs ==
    [best_spearman_ic : MetricValues.best_spearman_ic,
     best_ic_ir : MetricValues.best_ic_ir,
     hit_rate : MetricValues.hit_rate,
     lead_lag_score : MetricValues.lead_lag_score,
     granger_score : MetricValues.granger_score]

InitScore ==
    /\ \E w \in WeightSets : config = [SmallConfig EXCEPT !.weights = w]
    /\ HAS_STATSMODELS = TRUE
    /\ quicksort_ties = "kept"
    /\ NoBatch
    /\ signals = <<>>
    /\ results = <<>>
    /\ \E m \in MetricInputs : call = [op |-> "calculate_composite_score", metrics |-> m]
    /\ ret = NoRet

\* SignalEvaluator._calculate_composite_score(metrics)
CalculateCompositeScore ==
    /\ call.op = "calculate_composite_score"
    /\ ret = NoRet
    /\ ret' = [score |-> calculate_composite_score(call.metrics, config.weights)]
    /\ UNCHANGED <<config, HAS_STATSMODELS, quicksort_ties, signals, results, call, poolVars>>

NextScore == CalculateCompositeScore

SpecScore == InitScore /\ [][NextScore]_vars

Scored == call.op = "calculate_composite_score" /\ ret # NoRet

\* the metric a component is computed from
MetricOf(key) ==
    CASE key = "ic" -> "best_spearman_ic"
      [] key = "ic_ir" -> "best_ic_ir"
      [] key = "hit_rate" -> "hit_rate"
      [] key = "lead_lag" -> "lead_lag_score"
      [] key = "granger" -> "granger_score"

\* the weighted sum over the components whose metric is not NaN
RECURSIVE SumDefined(_, _, _)
SumDefined(m, weights, i) ==
    IF i > Len(ComponentKeys) THEN 0
    ELSE (IF IsNaN(m[MetricOf(ComponentKeys[i])]) THEN 0
          ELSE WeightOf(weights, ComponentKeys[i]) * Components(m)[ComponentKeys[i]])
         + SumDefined(m, weights, i + 1)

\* C5: the composite score is never NaN; a NaN metric contributes exactly 0 to
\* the weighted sum, so five NaN metrics give the score 0.
C5_NaNContributesZero ==
    Scored =>
        /\ ~IsNaN(ret.score)
        /\ \A i \in 1..Len(ComponentKeys) :
               IsNaN(call.metrics[MetricOf(ComponentKeys[i])])
                   => Components(call.metrics)[ComponentKeys[i]] = 0
        /\ ret.score = SumDefined(call.metrics, config.weights, 1)
        /\ (\A i \in 1..Len(ComponentKeys) : IsNaN(call.metrics[MetricOf(ComponentKeys[i])]))
               => ret.score = 0

\* C5 witness: all five metrics NaN, score 0
C5_Witness ==
    /\ Scored
    /\ \A i \in 1..Len(ComponentKeys) : IsNaN(call.metrics[MetricOf(ComponentKeys[i])])
    /\ ret.score = 0


\* C14: with the weights (all non-negative) and the other four components
\* fixed, a metrics record whose one changed metric gives a component at least
\* as large never scores less; and hit rates h and 1 - h score the same.
C14_Monotone ==
    Scored =>
        LET m == call.metrics
            w == config.weights
            c == Components(m)
        IN /\ \A field \in DOMAIN m :
                  \A v \in MetricValues[field] :
                      LET m2 == [m EXCEPT ![field] = v]
                          c2 == Components(m2)
                      IN (\A i \in 1..Len(ComponentKeys) :
                              c2[ComponentKeys[i]] >= c[ComponentKeys[i]])
                             => calculate_composite_score(m2, w) >= ret.score
           /\ ~IsNaN(m.hit_rate) =>
                  calculate_composite_score([m EXCEPT !.hit_rate = One - @], w) = ret.score

\* C14 witness: a contrarian hit rate of 0.4 under a positive hit-rate weight
C14_Witness ==
    /\ Scored
    /\ call.metrics.hit_rate = 400
    /\ call.metrics.best_spearman_ic = -150
    /\ WeightOf(config.weights, "hit_rate") > 0
    /\ ret.score > 0

-----------------------------------------------------------------------------
(* calculate_hit_rate on any aligned frame (SpecHit) *)

MaxRows == 10

\* the kinds of rows drawn: hits, exact negations, and misses with a flat side
DrawnKinds ==
    {<<1, 1>>, <<-1, -1>>, <<0, 0>>, <<1, -1>>, <<-1, 1>>, <<0, 1>>, <<-1, 0>>}

InitHit ==
    /\ config = SmallConfig
    /\ HAS_STATSMODELS = TRUE
    /\ quicksort_ties = "kept"
    /\ NoBatch
    /\ signals = <<>>
    /\ results = <<>>
    /\ call = [op |-> "calculate_hit_rate", aligned |-> ZeroRows]
    /\ ret = NoRet

\* one more aligned row of the given kind in the frame handed to the estimator
AddRow(kind) ==
    /\ call.op = "calculate_hit_rate"
    /\ ret = NoRet
    /\ CountRows(call.aligned, RowKinds) < MaxRows
    /\ call' = [call EXCEPT !.aligned[kind] = @ + 1]
    /\ UNCHANGED <<config, HAS_STATSMODELS, quicksort_ties, signals, results, ret, poolVars>>

\* calculate_hit_rate, then lines 128-134 of evaluate_signal
CalculateHitRate ==
    /\ call.op = "calculate_hit_rate"
    /\ ret = NoRet
    /\ LET hit_rate_result == calculate_hit_rate(call.aligned)
       IN ret' = [overall_hit_rate |-> hit_rate_result.overall_hit_rate,
                  total_signals |-> hit_rate_result.total_signals,
                  is_contrarian |-> IsContrarian(hit_rate_result.overall_hit_rate),
                  effective_hit_rate |->
                      EffectiveHitRate(hit_rate_result.overall_hit_rate)]
    /\ UNCHANGED <<config, HAS_STATSMODELS, quicksort_ties, signals, results, call, poolVars>>

NextHit ==
    \/ \E kind \in DrawnKinds : AddRow(kind)
    \/ CalculateHitRate

SpecHit == InitHit /\ [][NextHit]_vars

HitDone == call.op = "calculate_hit_rate" /\ ret # NoRet
EnoughRows == CountRows(call.aligned, RowKinds) >= MinHitRows
\* every aligned row has sig_dir = -act_dir / sig_dir = act_dir
AllNegated == \A k \in RowKinds : call.aligned[k] > 0 => k[1] = -k[2]
AllEqual == \A k \in RowKinds : call.aligned[k] > 0 => k[1] = k[2]
NoFlat == \A k \in RowKinds : call.aligned[k] > 0 => k[1] # 0

\* C8 (as claimed): with at least 10 aligned rows, each with the sign of the
\* signal's change the exact negation of the sign of the next return, the hit
\* rate is 0.0, is_contrarian is true and effective_hit_rate is 1.0.
C8_NegatedGivesZero ==
    (HitDone /\ EnoughRows /\ AllNegated) =>
        /\ ret.overall_hit_rate = 0
        /\ ret.is_contrarian
        /\ ret.effective_hit_rate = One

\* C8 (amended): as C8, for rows whose directions are not flat (a flat signal
\* before a flat return is the negation of its sign and counts as a hit).
C8_NegatedNonFlatGivesZero ==
    (HitDone /\ EnoughRows /\ AllNegated /\ NoFlat) =>
        /\ ret.overall_hit_rate = 0
        /\ ret.is_contrarian
        /\ ret.effective_hit_rate = One

\* C8 witness: ten negated rows of both directions
C8_Witness ==
    /\ HitDone
    /\ call.aligned[<<1, -1>>] = 4
    /\ call.aligned[<<-1, 1>>] = 6
    /\ CountRows(call.aligned, RowKinds) = 10
    /\ ret.overall_hit_rate = 0
    /\ ret.is_contrarian

\* C9: with at least 10 aligned rows, each with the sign of the signal's change
\* equal to the sign of the next return, the hit rate is 1.0 and is_contrarian
\* is false.
C9_EqualGivesOne ==
    (HitDone /\ EnoughRows /\ AllEqual) =>
        /\ ret.overall_hit_rate = One
        /\ ~ret.is_contrarian

\* C9 witness: ten rows with equal signs, flat ones among them
C9_Witness ==
    /\ HitDone
    /\ call.aligned[<<1, 1>>] = 3
    /\ call.aligned[<<-1, -1>>] = 3
    /\ call.aligned[<<0, 0>>] = 4
    /\ ret.overall_hit_rate = One
    /\ ~ret.is_contrarian

-----------------------------------------------------------------------------
(* evaluate_all under a configured composite_threshold (SpecThreshold) *)

\* Config(composite_threshold=t) for t = 0.0, 0.3 and 1.0, in the unit of the
\* composite score
Thresholds == {0, 300000, 1000000}

InitThreshold ==
    /\ \E t \in Thresholds : config = [SmallConfig EXCEPT !.composite_threshold = t]
    /\ HAS_STATSMODELS = TRUE
    /\ quicksort_ties = "kept"
    /\ NoBatch
    /\ signals = <<>>
    /\ results = <<>>
    /\ call = [op |-> "init"]
    /\ ret = NoRet

NextThreshold ==
    \/ \E name \in Names, series \in SeriesProfiles : AddSignal(name, series)
    \/ EvaluateAll

SpecThreshold == InitThreshold /\ [][NextThreshold]_vars

\* C11 (as claimed): every row of the table evaluate_all returns has a
\* composite_score greater than or equal to Config.composite_threshold.
C11_ThresholdApplied ==
    AfterEvaluateAll =>
        \A i \in 1..Len(ret.table) :
            ret.table[i].composite_score >= config.composite_threshold

-----------------------------------------------------------------------------
(* Independence of the evaluations of one run (SpecEval) *)

\* the registered signals in another registration order
Orders(n) == {f \in [1..n -> 1..n] : Injective(f)}
Reordered(sigs, f) == [i \in 1..Len(sigs) |-> sigs[f[i]]]

\* a row of the table without its rank, and the place of a name in a table
RowData(r) == [k \in DOMAIN r \ {"rank"} |-> r[k]]
PlaceIn(t, name) == CHOOSE i \in 1..Len(t) : t[i].signal_name = name
SeriesOf(name) == signals[Position(name)].series

\* C12: a signal's metrics and score are those of its own series under the
\* config, whichever other signals are registered; registering the same signals
\* in another order gives every signal the same row, and changes the order of
\* the table only between signals whose scores are equal.
C12_OrderIndependent ==
    (AfterEvaluateAll /\ ~ret.raised) =>
        /\ \A i \in 1..Len(ret.table) :
               LET name == ret.table[i].signal_name
               IN RowData(ret.table[i]) = Row(evaluate_signal(name, SeriesOf(name), config))
        /\ \A f \in Orders(Len(signals)) :
               \A o \in evaluate_all(Reordered(signals, f), config, <<>>) :
                   /\ ~o.raised
                   /\ TableNames(o.table) = TableNames(ret.table)
                   /\ \A i, j \in 1..Len(ret.table) :
                          LET a == ret.table[i]
                              b == ret.table[j]
                              ia == PlaceIn(o.table, a.signal_name)
                              ib == PlaceIn(o.table, b.signal_name)
                          IN /\ RowData(o.table[ia]) = RowData(a)
                             /\ a.composite_score > b.composite_score => ia < ib

\* C12 witness: two signals of different scores, the better one registered
\* first, so that the other registration order differs from the table's
C12_Witness ==
    /\ AfterEvaluateAll
    /\ Len(signals) = 2
    /\ Len(ret.table) = 2
    /\ ret.table[1].composite_score > ret.table[2].composite_score
    /\ Position(ret.table[1].signal_name) = 1

-----------------------------------------------------------------------------
(* The contrarian flag and the effective hit rate (SpecHit) *)

\* C15: is_contrarian is true exactly when the hit rate is defined and strictly
\* below 0.5; effective_hit_rate is max(hit_rate, 1 - hit_rate), in [0.5, 1];
\* and for a NaN hit rate effective_hit_rate is 0.5 and is_contrarian false.
C15_ContrarianAndEffective ==
    HitDone =>
        LET h == ret.overall_hit_rate
        IN /\ ret.is_contrarian <=> (~IsNaN(h) /\ h < One \div 2)
           /\ IsNaN(h) => (ret.effective_hit_rate = One \div 2 /\ ~ret.is_contrarian)
           /\ ~IsNaN(h) =>
                  /\ ret.effective_hit_rate = (IF h >= One - h THEN h ELSE One - h)
                  /\ ret.effective_hit_rate >= One \div 2
                  /\ ret.effective_hit_rate <= One

\* C15 witness: five hits in ten rows, a hit rate of exactly 0.5
C15_Witness ==
    /\ HitDone
    /\ ret.total_signals = 10
    /\ ret.overall_hit_rate = One \div 2
    /\ ~ret.is_contrarian
    /\ ret.effective_hit_rate = One \div 2

-----------------------------------------------------------------------------
(* lead_lag_analysis on any correlations (SpecLeadLag) *)

\* the max_lag values and the correlations drawn for each lag
MaxLags == {1, 2}
CorrValues == {NaN, -1000, 0, 600, 1000}

Lags(max_lag) == (0 - max_lag)..max_lag

\* a frame one row short of the minimum, or with rows enough
LeadLagInputs(max_lag) ==
    [rows : {2 * max_lag - 1, 12}, corr : [Lags(max_lag) -> CorrValues]]

InitLeadLag ==
    /\ \E max_lag \in MaxLags :
           /\ config = [SmallConfig EXCEPT !.max_lag = max_lag]
           /\ \E frame \in LeadLagInputs(max_lag) :
                  call = [op |-> "lead_lag_analysis", frame |-> frame]
    /\ HAS_STATSMODELS = TRUE
    /\ quicksort_ties = "kept"
    /\ NoBatch
    /\ signals = <<>>
    /\ results = <<>>
    /\ ret = NoRet

\* lead_lag_analysis(signal, price, config.max_lag), as evaluate_signal calls it
LeadLagAnalysis ==
    /\ call.op = "lead_lag_analysis"
    /\ ret = NoRet
    /\ ret' = lead_lag_analysis(call.frame, config.max_lag)
    /\ UNCHANGED <<config, HAS_STATSMODELS, quicksort_ties, signals, results, call, poolVars>>

NextLeadLag == LeadLagAnalysis

SpecLeadLag == InitLeadLag /\ [][NextLeadLag]_vars

\* the scan ran: the call returned, and not by the too-few-rows return
Scanned ==
    /\ call.op = "lead_lag_analysis"
    /\ ret # NoRet
    /\ ~ret.raised
    /\ call.frame.rows >= 2 * config.max_lag

Magnitude(x) == IF x < 0 THEN 0 - x ELSE x

\* C16: best_lag is a lag of -max_lag..max_lag whose correlation is defined and
\* has the largest absolute value among the defined ones, and every lag before
\* it in ascending order has a strictly smaller absolute value or is undefined.
C16_BestLagFirstLargest ==
    Scanned =>
        LET corr == call.frame.corr
            b == ret.best_lag
        IN /\ b \in Lags(config.max_lag)
           /\ ~IsNaN(corr[b])
           /\ ret.best_correlation = corr[b]
           /\ \A l \in Lags(config.max_lag) :
                  ~IsNaN(corr[l]) =>
                      /\ Magnitude(corr[l]) <= Magnitude(corr[b])
                      /\ l < b => Magnitude(corr[l]) < Magnitude(corr[b])

\* C16 witness: the largest absolute value at two lags after an undefined one;
\* the earlier of the two is returned
C16_Witness ==
    /\ Scanned
    /\ config.max_lag = 2
    /\ IsNaN(call.frame.corr[-2])
    /\ call.frame.corr[-1] = 600
    /\ call.frame.corr[0] = -1000
    /\ call.frame.corr[2] = 1000
    /\ ret.best_lag = 0


\* the claimed score for a best lag l and |c| = a, under max_lag m
ClaimedLeadScore(l, a, m) ==
    LET raw == IF l > 0 THEN (a * (m + l)) \div (2 * m)
               ELSE IF l = 0 THEN (a * 3) \div 10
               ELSE a \div 10
    IN IF raw > One THEN One ELSE raw

\* the claimed order of the scores for one |c| = a under max_lag m: any
\* positive lag above lag 0 above any negative lag
ClaimedLeadOrder(a, m) ==
    \A l \in 1..m, k \in (0 - m)..(-1) :
        /\ ClaimedLeadScore(l, a, m) > ClaimedLeadScore(0, a, m)
        /\ ClaimedLeadScore(0, a, m) > ClaimedLeadScore(k, a, m)

\* C17 (as claimed): lead_lag_score is |c|*(1 + best_lag/max_lag)/2 for a
\* positive best lag, |c|*0.3 for lag 0 and |c|*0.1 for a negative one, capped
\* at 1.0; it lies in [0,1], is 1.0 only at best_lag = max_lag, and for the same
\* |c| a positive lag scores strictly more than lag 0, which scores strictly
\* more than a negative lag.
C17_LeadScore ==
    Scanned =>
        LET a == Magnitude(ret.best_correlation)
        IN /\ ret.lead_lag_score = ClaimedLeadScore(ret.best_lag, a, config.max_lag)
           /\ 0 <= ret.lead_lag_score /\ ret.lead_lag_score <= One
           /\ ret.lead_lag_score = One => ret.best_lag = config.max_lag
           /\ ClaimedLeadOrder(a, config.max_lag)

\* C17 (amended): as C17, the strict order of the scores holding for |c| > 0
\* (with a best correlation of exactly 0 every lag scores 0).
C17_LeadScoreNonZero ==
    Scanned =>
        LET a == Magnitude(ret.best_correlation)
        IN /\ ret.lead_lag_score = ClaimedLeadScore(ret.best_lag, a, config.max_lag)
           /\ 0 <= ret.lead_lag_score /\ ret.lead_lag_score <= One
           /\ ret.lead_lag_score = One => ret.best_lag = config.max_lag
           /\ a > 0 => ClaimedLeadOrder(a, config.max_lag)

\* C17 witness: the indicator leads by one of two lags with correlation 0.6:
\* 0.6 * (1 + 1/2) / 2 = 0.45
C17_Witness ==
    /\ Scanned
    /\ config.max_lag = 2
    /\ ret.best_lag = 1
    /\ ret.best_correlation = 600
    /\ ret.lead_lag_score = 450

-----------------------------------------------------------------------------
(* The aggregates over the horizons (SpecAggregate) *)

\* the per-horizon values drawn; an IC-IR is in thousandths like every float
PearsonValues == {NaN, -800, 0, 300}
SpearmanValues == {NaN, -300, 0, 800}
IcIrValues == {NaN, -1500000, 0, 2000}

\* what calculate_ic can return for one horizon: the too-few-rows record; the
\* record of a constant series (no coefficient, and an IC-IR of 0 as ic_std is
\* not above 0); or two coefficients and an IC-IR
HorizonValues ==
    {[pearson_ic |-> NaN, spearman_ic |-> NaN, ic_ir |-> NaN],
     [pearson_ic |-> NaN, spearman_ic |-> NaN, ic_ir |-> 0]}
    \cup [pearson_ic : PearsonValues \ {NaN}, spearman_ic : SpearmanValues \ {NaN},
          ic_ir : IcIrValues \ {NaN}]

\* the horizons of one series: a longer horizon has no more aligned rows than a
\* shorter one, so it has too few rows when the shorter has
HorizonInputs ==
    {v \in [Periods -> HorizonValues] :
        IsNaN(v[1].ic_ir) => IsNaN(v[12].ic_ir)}

\* the orders in which a caller can list the horizons
PeriodOrders == {<<1, 12>>, <<12, 1>>}

\* result['by_period'] for the horizons of fwd_periods, in their order
ByPeriodOf(fwd_periods, values) ==
    [i \in 1..Len(fwd_periods) |->
        [label |-> PeriodLabel(fwd_periods[i]), period |-> fwd_periods[i],
         pearson_ic |-> values[fwd_periods[i]].pearson_ic,
         spearman_ic |-> values[fwd_periods[i]].spearman_ic,
         ic_ir |-> values[fwd_periods[i]].ic_ir]]

InitAggregate ==
    /\ \E fwd_periods \in PeriodOrders, values \in HorizonInputs :
           /\ config = [SmallConfig EXCEPT !.forward_periods = fwd_periods]
           /\ call = [op |-> "aggregate", by_period |-> ByPeriodOf(fwd_periods, values)]
    /\ HAS_STATSMODELS = TRUE
    /\ quicksort_ties = "kept"
    /\ NoBatch
    /\ signals = <<>>
    /\ results = <<>>
    /\ ret = NoRet

\* lines 105-141 of evaluate_signal on the by_period drawn, the other
\* estimators having returned their too-few-rows records
Aggregate ==
    /\ call.op = "aggregate"
    /\ ret = NoRet
    /\ ret' = AggregateMetrics(call.by_period, LeadLagSentinel, HitRateSentinel,
                               GrangerSentinel(""), PowerSentinel)
    /\ UNCHANGED <<config, HAS_STATSMODELS, quicksort_ties, signals, results, call, poolVars>>

NextAggregate == Aggregate

SpecAggregate == InitAggregate /\ [][NextAggregate]_vars

Aggregated == call.op = "aggregate" /\ ret # NoRet

\* the values of one column over the horizons
Column(field) == {call.by_period[i][field] : i \in 1..Len(call.by_period)}
Defined(values) == {x \in values : ~IsNaN(x)}

\* C18 (as claimed): best_pearson_ic and best_spearman_ic are each the
\* per-horizon value of highest absolute value, best_ic_ir the highest per-horizon
\* IC-IR; a NaN horizon is never chosen while some horizon has a defined value.
C18_BestOfHorizons ==
    Aggregated =>
        /\ \A field \in {"pearson_ic", "spearman_ic"} :
               LET best == ret[IF field = "pearson_ic" THEN "best_pearson_ic"
                               ELSE "best_spearman_ic"]
               IN IF Defined(Column(field)) = {} THEN IsNaN(best)
                  ELSE /\ best \in Defined(Column(field))
                       /\ \A x \in Defined(Column(field)) : Magnitude(x) <= Magnitude(best)
        /\ IF Defined(Column("ic_ir")) = {} THEN IsNaN(ret.best_ic_ir)
           ELSE /\ ret.best_ic_ir \in Defined(Column("ic_ir"))
                /\ \A x \in Defined(Column("ic_ir")) : x <= ret.best_ic_ir

-----------------------------------------------------------------------------
(* get_current_power_stats on any rolling frame (SpecPower) *)

\* the numbers of rows with no missing column, around the minimum for a trend
FullRows == {0} \cup 18..23
\* the rows of signal_score.dropna() beyond those with no missing column
\* (ic_stability is missing for the first windows, where the score is not)
ExtraScores == {0, 1, 2}
ScoreShapes == {"rising", "falling", "flat", "zigzag"}

ScoreAt(shape, i) ==
    CASE shape = "rising" -> 10 * i
      [] shape = "falling" -> 500 - 10 * i
      [] shape = "flat" -> 300
      [] shape = "zigzag" -> IF i % 2 = 0 THEN 400 ELSE 200

RollingOf(full, extra, shape) ==
    LET score == [i \in 1..(full + extra) |-> ScoreAt(shape, i)]
    IN [index_len |-> 30, full |-> full, score |-> score,
        latest |-> IF full = 0 THEN NoLatest
                   ELSE [rolling_ic |-> 100, rolling_hit_rate |-> 600,
                         signal_score |-> score[full + extra]]]

\* the frames rolling_signal_quality returns: with no row at all, or 30 rows
RollingInputs ==
    {[index_len |-> 0, full |-> 0, score |-> <<>>, latest |-> NoLatest]}
    \cup {RollingOf(full, extra, shape) :
             full \in FullRows, extra \in ExtraScores, shape \in ScoreShapes}

InitPower ==
    /\ config = SmallConfig
    /\ HAS_STATSMODELS = TRUE
    /\ quicksort_ties = "kept"
    /\ NoBatch
    /\ signals = <<>>
    /\ results = <<>>
    /\ \E rolling_df \in RollingInputs :
           call = [op |-> "get_current_power_stats", rolling_df |-> rolling_df]
    /\ ret = NoRet

\* get_current_power_stats(rolling_df)
GetCurrentPowerStats ==
    /\ call.op = "get_current_power_stats"
    /\ ret = NoRet
    /\ ret' = get_current_power_stats(call.rolling_df)
    /\ UNCHANGED <<config, HAS_STATSMODELS, quicksort_ties, signals, results, call, poolVars>>

NextPower == GetCurrentPowerStats

SpecPower == InitPower /\ [][NextPower]_vars

PowerDone == call.op = "get_current_power_stats" /\ ret # NoRet

\* C19 (as claimed): with at least 20 rows with no missing column the trend is
\* computed and is_improving is true exactly when mean(recent segment) -
\* mean(preceding segment) is positive; with fewer, is_improving is false and
\* ic_trend is NaN.
C19_TrendFromTwentyRows ==
    PowerDone =>
        LET n == call.rolling_df.full
            delta == PowerTrend(call.rolling_df.score, n)
        IN IF n >= 20
           THEN /\ ret.ic_trend = delta
                /\ ret.is_improving <=> (~delta.nan /\ delta.num > 0)
           ELSE /\ ret.ic_trend.nan
                /\ ~ret.is_improving

-----------------------------------------------------------------------------
(* get_top_n (SpecTopN) *)

\* the values of an explicit n: none, fewer than, and more than the rows
TopNArgs == {0, 1, MaxSignals + 1}

\* SignalEvaluator.get_top_n(n), n given or left to its default None
GetTopN ==
    \E n_given \in BOOLEAN, n \in TopNArgs :
        /\ n_given \/ n = 0
        /\ \E o \in get_top_n(signals, config, results, n_given, n) :
               /\ results' = o.results
               /\ ret' = [raised |-> o.raised, table |-> o.table]
        /\ call' = [op |-> "get_top_n", n_given |-> n_given, n |-> n]
        /\ UNCHANGED <<config, HAS_STATSMODELS, quicksort_ties, signals, poolVars>>

NextTopN ==
    \/ \E name \in Names, series \in SeriesProfiles : AddSignal(name, series)
    \/ EvaluateAll
    \/ GetTopN

SpecTopN == InitEval /\ [][NextTopN]_vars

\* C20 (as claimed): get_top_n(n) with an explicit n >= 0 returns the first
\* min(n, N) rows of the table evaluate_all returns, in its order and with its
\* ranks; with n omitted, the first min(config.top_n, N) rows.
C20_TopNIsPrefix ==
    call.op = "get_top_n" =>
        \A o \in evaluate_all(signals, config, <<>>) :
            LET n == IF call.n_given THEN call.n ELSE config.top_n
                N == Len(o.table)
            IN /\ ~ret.raised
               /\ ret.table = SubSeq(o.table, 1, IF n < N THEN n ELSE N)

-----------------------------------------------------------------------------
(* The Granger test without its regression primitive (SpecSignal) *)

\* statsmodels is not importable, or grangercausalitytests raises on the frame
GrangerUnavailable(frame, max_lag) ==
    \/ ~HAS_STATSMODELS
    \/ frame.rows >= max_lag * 3 /\ frame.test = "raise"

\* C21: when statsmodels is not importable or grangercausalitytests raises,
\* granger_test does not raise and returns best_lag 0, best_p_value 1.0,
\* significant False, granger_score 0.0 and no p-values; evaluate_signal then
\* raises only if lead_lag_analysis did, and its result carries these values
\* with a Granger component of 0.
C21_GrangerDegrades ==
    (call.op = "evaluate_signal" /\ ret # NoRet
        /\ GrangerUnavailable(call.series.granger, config.granger_max_lag)) =>
        LET g == granger_test(call.series.granger, config.granger_max_lag)
        IN /\ ~g.raised
           /\ g.best_lag = 0 /\ g.best_p_value = POne /\ ~g.significant
           /\ g.granger_score = 0 /\ g.n_p_values = 0
           /\ ret.raised <=> lead_lag_analysis(call.series.lead_lag, config.max_lag).raised
           /\ ~ret.raised =>
                  /\ ret.metrics.granger_best_lag = 0
                  /\ ret.metrics.granger_p_value = POne
                  /\ ~ret.metrics.granger_significant
                  /\ ret.metrics.granger_score = 0
                  /\ Components(ret.metrics).granger = 0
                  /\ ~IsNaN(ret.composite_score)

\* C21 witness: statsmodels is importable, the test raises on a frame of enough
\* rows, and the signal is evaluated with a positive score from its other metrics
C21_Witness ==
    /\ Evaluated
    /\ HAS_STATSMODELS
    /\ call.series.granger.rows >= config.granger_max_lag * 3
    /\ call.series.granger.test = "raise"
    /\ ret.metrics.granger_score = 0
    /\ ret.composite_score > 0

-----------------------------------------------------------------------------
(* The registry and the results dict over the evaluator's life (SpecRegistry) *)

\* a failing series and two that evaluate to different scores
RegistryProfiles == {SeriesConstant, SeriesStrong, SeriesWeak}

\* the dicts handed to add_signals: two names, in either order
Batches ==
    {batch \in [1..2 -> [name : Names, series : RegistryProfiles]] :
        batch[1].name # batch[2].name}

InitRegistry ==
    /\ config = SmallConfig
    /\ HAS_STATSMODELS = TRUE
    /\ quicksort_ties = "kept"
    /\ NoBatch
    /\ signals = <<>>
    /\ results = <<>>
    /\ call = [op |-> "init"]
    /\ ret = NoRet

\* SignalEvaluator.add_signal(name, series) at any time of the evaluator's
\* life; it returns nothing, so ret keeps the table last returned
AddSignalAnytime(name, series) ==
    /\ signals' = PutSignal(signals, name, series)
    /\ call' = [op |-> "add_signal"]
    /\ UNCHANGED <<config, HAS_STATSMODELS, quicksort_ties, results, ret, poolVars>>

\* SignalEvaluator.add_signals(batch), likewise
AddSignals(batch) ==
    /\ signals' = UpdateSignals(signals, batch)
    /\ call' = [op |-> "add_signals"]
    /\ UNCHANGED <<config, HAS_STATSMODELS, quicksort_ties, results, ret, poolVars>>

NextRegistry ==
    \/ \E name \in Names, series \in RegistryProfiles : AddSignalAnytime(name, series)
    \/ \E batch \in Batches : AddSignals(batch)
    \/ EvaluateAll

SpecRegistry == InitRegistry /\ [][NextRegistry]_vars

RegisteredNames == {signals[i].name : i \in 1..Len(signals)}
HasTable == "table" \in DOMAIN ret

\* C22: the registry holds each name once, a registration leaves every name
\* already registered at its position, and the table evaluate_all returns has
\* at most one row per name and no more rows than registered names.
C22_OneRowPerName ==
    /\ [](/\ Len(signals) = Cardinality(RegisteredNames)
          /\ (AfterEvaluateAll =>
                 /\ ~ret.raised
                 /\ \A i, j \in 1..Len(ret.table) :
                        ret.table[i].signal_name = ret.table[j].signal_name => i = j
                 /\ TableNames(ret.table) \subseteq RegisteredNames
                 /\ Len(ret.table) <= Cardinality(RegisteredNames)))
    /\ [][\A i \in 1..Len(signals) :
              /\ i <= Len(signals')
              /\ signals'[i].name = signals[i].name]_vars

\* C22 witness: the first name registered was evaluated with one series, then
\* registered again with a series that fails, and is still first of the two
\* registered names when evaluate_all returns the one row of the other
C22_Witness ==
    /\ AfterEvaluateAll
    /\ Len(signals) = 2
    /\ signals[1].name \in DOMAIN results
    /\ ~Succeeds(signals[1])
    /\ Len(ret.table) = 1
    /\ ret.table[1].signal_name = signals[2].name

\* C29: every row of the table last returned has an entry in results with the
\* row's composite score; no call removes a key of results, add_signal and
\* add_signals leave results as it is, and evaluate_all leaves the entry of a
\* signal whose evaluation now fails as the earlier run stored it.
C29_ResultsNeverPruned ==
    /\ []((HasTable /\ ~ret.raised) =>
             \A i \in 1..Len(ret.table) :
                 /\ ret.table[i].signal_name \in DOMAIN results
                 /\ results[ret.table[i].signal_name].composite_score
                        = ret.table[i].composite_score)
    /\ [][/\ DOMAIN results \subseteq DOMAIN results'
          /\ call'.op \in {"add_signal", "add_signals"} => results' = results
          /\ call'.op = "evaluate_all" =>
                 \A name \in DOMAIN results :
                     name \notin TableNames(ret'.table) => results'[name] = results[name]]_vars

\* C29 witness: after evaluate_all, a registered signal that an earlier run
\* evaluated has its entry in results and no row in the table just returned
C29_Witness ==
    /\ AfterEvaluateAll
    /\ \E name \in RegisteredNames :
           /\ name \in DOMAIN results
           /\ ~results[name].raised
           /\ name \notin TableNames(ret.table)

-----------------------------------------------------------------------------
(* benchmark_all_assets: the thread pool of one batch (SpecPool) *)

MaxAssets == 2

\* the values of BENCHMARK_MAX_WORKERS drawn (the default is 5)
MaxWorkers == {1, 2, 5}

evalVars == <<config, HAS_STATSMODELS, quicksort_ties, signals, results, call, ret>>

\* a submitted process_asset call that no worker has taken yet
Queued == [pc |-> "queued", old_target |-> 0, result |-> "none", idx |-> 0, calls |-> 0]

\* the batch holds the assets 1..n, every one submitted to the executor, the
\* calling thread waiting in as_completed
InitPool ==
    /\ config = SmallConfig
    /\ HAS_STATSMODELS = TRUE
    /\ quicksort_ties = "kept"
    /\ signals = <<>>
    /\ results = <<>>
    /\ \E w \in MaxWorkers : call = [op |-> "benchmark_all_assets", max_workers |-> w]
    /\ ret = NoRet
    /\ sys_stdout = 0
    /\ \E n \in 1..MaxAssets : futures = [a \in 1..n |-> Queued]
    /\ completed_count = 0
    /\ count_lock = 0
    /\ bench = [pc |-> "as_completed", results |-> <<>>, failed |-> <<>>, written_to |-> -1]
    /\ log = <<>>

\* num_workers = min(max_workers, len(assets))
NumWorkers == IF call.max_workers < Len(futures) THEN call.max_workers ELSE Len(futures)

Running == {a \in DOMAIN futures : futures[a].pc \notin {"queued", "done", "collected"}}

\* a free worker takes the oldest queued call: process_asset(asset) begins
\* _benchmark_single_asset
Start(a) ==
    /\ futures[a].pc = "queued"
    /\ \A b \in 1..(a - 1) : futures[b].pc # "queued"
    /\ Cardinality(Running) < NumWorkers
    /\ futures' = [futures EXCEPT ![a].pc = "try", ![a].calls = @ + 1]
    /\ UNCHANGED <<evalVars, sys_stdout, completed_count, count_lock, bench, log>>

\* lines 35-45 raise: the except clause returns None
FetchRaises(a) ==
    /\ futures[a].pc = "try"
    /\ futures' = [futures EXCEPT ![a].pc = "returned", ![a].result = "None"]
    /\ UNCHANGED <<evalVars, sys_stdout, completed_count, count_lock, bench, log>>

\* line 48, redirect_stdout.__enter__: the current sys.stdout is kept as the
\* old target and the worker's StringIO is installed
EnterRedirect(a) ==
    /\ futures[a].pc = "try"
    /\ futures' = [futures EXCEPT ![a].pc = "with", ![a].old_target = sys_stdout]
    /\ sys_stdout' = a
    /\ UNCHANGED <<evalVars, completed_count, count_lock, bench, log>>

\* lines 49-70, redirect_stdout.__exit__: the old target is installed again,
\* whether the block raised, and the function returns None (an exception, or
\* empty rankings) or the summary dict
ExitRedirect(a) ==
    /\ futures[a].pc = "with"
    /\ sys_stdout' = futures[a].old_target
    /\ \E result \in {"None", "summary"} :
           futures' = [futures EXCEPT ![a].pc = "returned", ![a].result = result]
    /\ UNCHANGED <<evalVars, completed_count, count_lock, bench, log>>

\* a lock that never blocks
CanAcquireAlways(lock) == TRUE

\* Lock.acquire returns when no thread holds the lock
CanAcquire(lock) == lock = 0

\* line 168: with count_lock
Acquire(a) ==
    /\ futures[a].pc = "returned"
    /\ CanAcquire(count_lock)
    /\ count_lock' = a
    /\ futures' = [futures EXCEPT ![a].pc = "locked"]
    /\ UNCHANGED <<evalVars, sys_stdout, completed_count, bench, log>>

\* line 169: completed_count += 1
Increment(a) ==
    /\ futures[a].pc = "locked"
    /\ completed_count' = completed_count + 1
    /\ futures' = [futures EXCEPT ![a].pc = "counted"]
    /\ UNCHANGED <<evalVars, sys_stdout, count_lock, bench, log>>

\* line 170 and the end of the with block: idx = completed_count, release
ReadIdx(a) ==
    /\ futures[a].pc = "counted"
    /\ futures' = [futures EXCEPT ![a].pc = "released", ![a].idx = completed_count]
    /\ count_lock' = 0
    /\ UNCHANGED <<evalVars, sys_stdout, completed_count, bench, log>>

\* lines 171-175: the progress line is logged and (asset, result) returned
Return(a) ==
    /\ futures[a].pc = "released"
    /\ futures' = [futures EXCEPT ![a].pc = "done"]
    /\ log' = Append(log, a)
    /\ UNCHANGED <<evalVars, sys_stdout, completed_count, count_lock, bench>>

\* lines 180-185: as_completed yields a finished future
AsCompleted(a) ==
    /\ bench.pc = "as_completed"
    /\ futures[a].pc = "done"
    /\ futures' = [futures EXCEPT ![a].pc = "collected"]
    /\ bench' = IF futures[a].result = "summary"
                THEN [bench EXCEPT !.results = Append(@, a)]
                ELSE [bench EXCEPT !.failed = Append(@, a)]
    /\ UNCHANGED <<evalVars, sys_stdout, completed_count, count_lock, log>>

\* the end of the with ThreadPoolExecutor block: every future was yielded
Drained ==
    /\ bench.pc = "as_completed"
    /\ \A a \in DOMAIN futures : futures[a].pc = "collected"
    /\ bench' = [bench EXCEPT !.pc = "drained"]
    /\ UNCHANGED <<evalVars, sys_stdout, futures, completed_count, count_lock, log>>

\* after the batch the calling thread writes to sys.stdout
WriteStdout ==
    /\ bench.pc = "drained"
    /\ bench' = [bench EXCEPT !.pc = "written", !.written_to = sys_stdout]
    /\ UNCHANGED <<evalVars, sys_stdout, futures, completed_count, count_lock, log>>

NextPool ==
    \/ \E a \in DOMAIN futures : Start(a)
    \/ \E a \in DOMAIN futures : FetchRaises(a)
    \/ \E a \in DOMAIN futures : EnterRedirect(a)
    \/ \E a \in DOMAIN futures : ExitRedirect(a)
    \/ \E a \in DOMAIN futures : Acquire(a)
    \/ \E a \in DOMAIN futures : Increment(a)
    \/ \E a \in DOMAIN futures : ReadIdx(a)
    \/ \E a \in DOMAIN futures : Return(a)
    \/ \E a \in DOMAIN futures : AsCompleted(a)
    \/ Drained
    \/ WriteStdout

SpecPool == InitPool /\ [][NextPool]_vars

PoolDrained == bench.pc \in {"drained", "written"}

\* C23 (as claimed): under every interleaving of the workers' redirects, once
\* the pool has drained sys.stdout is the stream installed before the batch,
\* and what the calling thread then writes goes to that stream.
C23_StdoutRestored ==
    /\ PoolDrained => sys_stdout = 0
    /\ bench.pc = "written" => bench.written_to = 0

SeqSet(s) == {s[i] : i \in 1..Len(s)}

\* C27: every asset of the batch is run once and, when the pool has drained,
\* is in exactly one of results and failed, completed_count is the number of
\* assets, and the indices read under count_lock are 1..len(assets), no two
\* equal.
C27_PoolAccounting ==
    /\ \A a \in DOMAIN futures : futures[a].calls <= 1
    /\ \A a, b \in DOMAIN futures :
           (a # b /\ futures[a].idx # 0) => futures[a].idx # futures[b].idx
    /\ Len(bench.results) + Len(bench.failed)
           = Cardinality({a \in DOMAIN futures : futures[a].pc = "collected"})
    /\ PoolDrained =>
           /\ \A a \in DOMAIN futures : futures[a].calls = 1
           /\ Len(bench.results) + Len(bench.failed) = Len(futures)
           /\ SeqSet(bench.results) \cup SeqSet(bench.failed) = DOMAIN futures
           /\ SeqSet(bench.results) \cap SeqSet(bench.failed) = {}
           /\ \A a \in DOMAIN futures :
                  a \in SeqSet(bench.results) <=> futures[a].result = "summary"
           /\ completed_count = Len(futures)
           /\ {futures[a].idx : a \in DOMAIN futures} = 1..Len(futures)
           /\ Len(log) = Len(futures)
           /\ SeqSet(log) = DOMAIN futures

\* C27 witness: two workers ran at once (the second entered its redirect inside
\* the first's), one asset succeeded and one failed, and the asset submitted
\* first got the later index
C27_Witness ==
    /\ PoolDrained
    /\ Len(futures) = 2
    /\ futures[2].old_target = 1
    /\ Len(bench.results) = 1
    /\ Len(bench.failed) = 1
    /\ futures[1].idx = 2

-----------------------------------------------------------------------------
(* TokenAuthMiddleware (SpecAuth) *)

\* _safe_name; BASE_PATH is "/" followed by it
SafeName == "calmcrypto"

\* the first path segments drawn: the service's, one that BASE_PATH is only a
\* prefix of, and the health route's
FirstSegments == {SafeName, "calmcrypto-x", "health"}

\* path.startswith(BASE_PATH), by the first segment of the path
StartsWithBase(segs) == segs # <<>> /\ segs[1] \in {SafeName, "calmcrypto-x"}

\* MCP_TOKENS split at its commas, each part stripped ("": unset or blank)
TokenLists == {<<>>, <<"">>, <<"t1">>, <<"t1", "">>}

\* the environment TokenAuthMiddleware.__init__ reads, each flag already
\* compared with ("1", "true", "yes")
Environments ==
    [MCP_TOKENS : TokenLists, MCP_ALLOW_URL_TOKENS : BOOLEAN, MCP_REQUIRE_AUTH : BOOLEAN]

NoToken == "none"

\* the Authorization header: absent, or its scheme (lower case) and the rest
AuthHeaders ==
    {[scheme |-> NoToken, token |-> ""],
     [scheme |-> "bearer", token |-> "t1"],
     [scheme |-> "bearer", token |-> "bad"],
     [scheme |-> "bearer", token |-> ""],
     [scheme |-> "basic", token |-> "t1"]}

Paths ==
    {<<first>> : first \in FirstSegments}
        \cup {<<SafeName, second>> : second \in {"t1", "bad", "mcp"}}
        \cup {<<SafeName, "t1", "mcp">>}

Requests ==
    [segs : Paths, slash : BOOLEAN, authorization : AuthHeaders,
     query_token : {NoToken, "t1", "bad"}]

\* lines 119-128
Middleware(env) ==
    [allowed_tokens |-> {env.MCP_TOKENS[i] : i \in DOMAIN env.MCP_TOKENS} \ {""},
     allow_url_tokens |-> env.MCP_ALLOW_URL_TOKENS,
     require_auth |-> env.MCP_REQUIRE_AUTH]

Forward(segs, slash, token) == [status |-> 200, segs |-> segs, slash |-> slash, mcp_token |-> token]
Unauthorized == [status |-> 401]

\* lines 166-169 and 204-205: the path without its second segment
Remainder(segs) == <<SafeName>> \o SubSeq(segs, 3, Len(segs))

\* TokenAuthMiddleware.dispatch: the response, or the request as forwarded
dispatch(self, request) ==
    LET segs == request.segs
        auth == request.authorization
    IN IF ~StartsWithBase(segs) THEN Forward(segs, request.slash, NoToken)
       ELSE IF ~self.require_auth
            THEN IF Len(segs) >= 2 /\ segs[1] = SafeName
                 THEN Forward(Remainder(segs), request.slash \/ Len(segs) = 2, NoToken)
                 ELSE Forward(segs, request.slash, NoToken)
       ELSE IF self.allowed_tokens = {} THEN Unauthorized
       ELSE IF auth.scheme = "bearer" /\ auth.token # "" /\ auth.token \in self.allowed_tokens
            THEN Forward(segs, request.slash, auth.token)
       ELSE IF self.allow_url_tokens /\ request.query_token \in self.allowed_tokens
            THEN Forward(segs, request.slash, request.query_token)
       ELSE IF self.allow_url_tokens /\ Len(segs) >= 2 /\ segs[1] = SafeName
                   /\ segs[2] \in self.allowed_tokens
            \* new_path == BASE_PATH becomes STREAM_PATH, with its slash
            THEN Forward(Remainder(segs), request.slash \/ Len(segs) = 2, segs[2])
       ELSE Unauthorized

InitAuth ==
    /\ config = SmallConfig
    /\ HAS_STATSMODELS = TRUE
    /\ quicksort_ties = "kept"
    /\ NoBatch
    /\ signals = <<>>
    /\ results = <<>>
    /\ \E env \in Environments, request \in Requests :
           call = [op |-> "dispatch", env |-> env, request |-> request]
    /\ ret = NoRet

\* one request through the middleware
Dispatch ==
    /\ call.op = "dispatch"
    /\ ret = NoRet
    /\ ret' = dispatch(Middleware(call.env), call.request)
    /\ UNCHANGED <<config, HAS_STATSMODELS, quicksort_ties, signals, results, call, poolVars>>

NextAuth == Dispatch

SpecAuth == InitAuth /\ [][NextAuth]_vars

\* the tokens MCP_TOKENS lists
ListedTokens == {call.env.MCP_TOKENS[i] : i \in DOMAIN call.env.MCP_TOKENS} \ {""}

\* the request carries an allowed token where the middleware may look for one
CarriesAllowedToken ==
    LET r == call.request
    IN \/ r.authorization.scheme = "bearer" /\ r.authorization.token \in ListedTokens
       \/ /\ call.env.MCP_ALLOW_URL_TOKENS
          /\ \/ r.query_token \in ListedTokens
             \/ Len(r.segs) >= 2 /\ r.segs[2] \in ListedTokens

\* C24 (as claimed): with at least one token listed in MCP_TOKENS, a request
\* under BASE_PATH is forwarded exactly when it carries an allowed token and is
\* answered 401 otherwise; with MCP_TOKENS unset or empty every request is
\* forwarded.
C24_TokenGate ==
    (call.op = "dispatch" /\ ret # NoRet /\ StartsWithBase(call.request.segs)) =>
        IF ListedTokens # {}
        THEN /\ ret.status = 200 <=> CarriesAllowedToken
             /\ ret.status # 200 => ret.status = 401
        ELSE ret.status = 200

-----------------------------------------------------------------------------
(* The estimators around their minimum row counts (SpecMinimum) *)

RowCounts == 0..(MaxRows + 1)

\* a rows where the signal rose before a rise and b rows where it rose before a fall
Mix(a, b) == [k \in RowKinds |-> IF k = <<1, 1>> THEN a ELSE IF k = <<1, -1>> THEN b ELSE 0]

\* thresholds of calculate_hit_rate, in thousandths: the default and 0.001
HitThresholds == {0, 1}

HitCalls ==
    {c \in [op : {"calculate_hit_rate"}, rises : RowCounts, falls : 0..1,
            threshold : HitThresholds, kept_rises : RowCounts, kept_falls : 0..1] :
        /\ c.rises + c.falls <= MaxRows + 1
        /\ c.kept_rises <= c.rises
        /\ c.kept_falls <= c.falls
        /\ c.threshold = 0 => (c.kept_rises = c.rises /\ c.kept_falls = c.falls)}

MinimumCalls ==
    [op : {"calculate_ic"}, rows : RowCounts, ic_std : {NaN, 0, 100}, rolling_window : {4, 5}]
        \cup [op : {"lead_lag_analysis"}, rows : RowCounts, corr : {-500, 0, 200}]
        \cup HitCalls
        \cup [op : {"granger_test"}, rows : RowCounts, p : {1, 500, 10000}]
        \cup [op : {"rolling_signal_quality"}, rows : RowCounts, window : {4, 5}]

InitMinimum ==
    /\ config = SmallConfig
    /\ HAS_STATSMODELS = TRUE
    /\ quicksort_ties = "kept"
    /\ NoBatch
    /\ signals = <<>>
    /\ results = <<>>
    /\ call \in MinimumCalls
    /\ ret = NoRet

\* the rolling frame pandas builds on `rows` aligned rows with the given window
RollingFrame(rows, window) ==
    LET defined == IF rows < window THEN 0 ELSE rows - window + 1
    IN [rows |-> rows, full |-> 0, score |-> [i \in 1..defined |-> 100 * i],
        latest |-> NoLatest]

CalculateIc ==
    /\ call.op = "calculate_ic" /\ ret = NoRet
    /\ ret' = calculate_ic(ICFrame(call.rows, 400, 300, 200, call.ic_std), call.rolling_window)
    /\ UNCHANGED <<config, HAS_STATSMODELS, quicksort_ties, signals, results, call, poolVars>>

LeadLagAtMinimum ==
    /\ call.op = "lead_lag_analysis" /\ ret = NoRet
    /\ ret' = lead_lag_analysis([rows |-> call.rows, corr |-> [l \in LagRange |-> call.corr]],
                                config.max_lag)
    /\ UNCHANGED <<config, HAS_STATSMODELS, quicksort_ties, signals, results, call, poolVars>>

CalculateHitRateThreshold ==
    /\ call.op = "calculate_hit_rate" /\ ret = NoRet
    /\ ret' = calculate_hit_rate_threshold(Mix(call.rises, call.falls), call.threshold,
                                           Mix(call.kept_rises, call.kept_falls))
    /\ UNCHANGED <<config, HAS_STATSMODELS, quicksort_ties, signals, results, call, poolVars>>

GrangerTest ==
    /\ call.op = "granger_test" /\ ret = NoRet
    /\ ret' = granger_test(PFrame(call.rows, "ok", call.p, 10000), config.granger_max_lag)
    /\ UNCHANGED <<config, HAS_STATSMODELS, quicksort_ties, signals, results, call, poolVars>>

RollingSignalQuality ==
    /\ call.op = "rolling_signal_quality" /\ ret = NoRet
    /\ ret' = rolling_signal_quality(RollingFrame(call.rows, call.window), call.window)
    /\ UNCHANGED <<config, HAS_STATSMODELS, quicksort_ties, signals, results, call, poolVars>>

NextMinimum ==
    \/ CalculateIc
    \/ LeadLagAtMinimum
    \/ CalculateHitRateThreshold
    \/ GrangerTest
    \/ RollingSignalQuality

SpecMinimum == InitMinimum /\ [][NextMinimum]_vars

\* the rows calculate_hit_rate scores: those the threshold keeps
ScoredRows == IF call.threshold > 0 THEN call.kept_rises + call.kept_falls
              ELSE call.rises + call.falls

\* C25 (as claimed): each estimator returns its insufficient-data sentinel
\* exactly when its rows are fewer than its minimum (rolling_window,
\* 2 * max_lag, 10 scored rows, 3 * max_lag, window), and a computed result
\* from the minimum on.
C25_SentinelBelowMinimum ==
    ret # NoRet =>
        CASE call.op = "calculate_ic" ->
                 (ret = ICSentinel) <=> (call.rows < call.rolling_window)
          [] call.op = "lead_lag_analysis" ->
                 (ret = LeadLagSentinel) <=> (call.rows < 2 * config.max_lag)
          [] call.op = "calculate_hit_rate" ->
                 /\ (ret = HitRateSentinel) <=> (ScoredRows < MinHitRows)
                 /\ ret # HitRateSentinel => ret.total_signals = ScoredRows
          [] call.op = "granger_test" ->
                 (ret = GrangerSentinel("")) <=> (call.rows < 3 * config.granger_max_lag)
          [] call.op = "rolling_signal_quality" ->
                 (ret.score = <<>>) <=> (call.rows < call.window)
          [] OTHER -> TRUE

-----------------------------------------------------------------------------
(* benchmark_all_assets: batches chained by start_from_asset (SpecPagination) *)

\* all_assets after sort(): the symbols 1..ListedAssets, in order
ListedAssets == MaxAssets + 3
AllAssets == [i \in 1..ListedAssets |-> i]

\* assets.index(x): the position of x, or 0 for ValueError
RECURSIVE IndexOf(_, _, _)
IndexOf(list, x, i) ==
    IF i > Len(list) THEN 0
    ELSE IF list[i] = x THEN i
    ELSE IndexOf(list, x, i + 1)

\* lines 139-150: the batch; start_from_asset 0 is the empty string
Batch(all_assets, start_from_asset, top_n_assets) ==
    LET start_idx == IF start_from_asset = 0 THEN 0
                     ELSE IndexOf(all_assets, start_from_asset, 1)
        from_start == IF start_idx = 0 THEN all_assets       \* not given, or not found
                      ELSE SubSeq(all_assets, start_idx, Len(all_assets))
    IN IF top_n_assets > 0 /\ top_n_assets < Len(from_start)
       THEN SubSeq(from_start, 1, top_n_assets)
       ELSE from_start

\* the assets of the batch whose _benchmark_single_asset returned a summary
RECURSIVE Summaries(_, _)
Summaries(assets, outcome) ==
    IF assets = <<>> THEN <<>>
    ELSE (IF outcome[Head(assets)] = "summary" THEN <<Head(assets)>> ELSE <<>>)
             \o Summaries(Tail(assets), outcome)

\* lines 187-226: the reply to a batch, from the summaries collected; rows: the
\* assets of the CSV, before they are sorted by score
BatchReply(all_assets, assets, summaries) ==
    IF summaries = <<>>       \* if not results
    THEN [kind |-> "no_results", next_batch |-> 0, all_processed |-> FALSE]
    ELSE LET last_asset_in_batch == IF assets # <<>> THEN assets[Len(assets)] ELSE 0
             last_idx == IndexOf(all_assets, last_asset_in_batch, 1)
             remaining == Len(all_assets) - last_idx
         IN [kind |-> "csv",
             rows |-> summaries,
             analyzed |-> Len(summaries),
             failed |-> Len(assets) - Len(summaries),
             last_asset |-> last_asset_in_batch,
             next_batch |-> IF last_idx # 0 /\ remaining > 0 THEN all_assets[last_idx + 1] ELSE 0,
             all_processed |-> last_idx # 0 /\ remaining = 0]

InitPagination ==
    /\ config = SmallConfig
    /\ HAS_STATSMODELS = TRUE
    /\ quicksort_ties = "kept"
    /\ NoBatch
    /\ signals = <<>>
    /\ results = <<>>
    /\ \E k \in 0..ListedAssets : call = [op |-> "init", top_n_assets |-> k]
    /\ ret = NoRet

\* benchmark_all_assets(top_n_assets, start_from_asset): the first call of a
\* chain, or the call the last reply's 'Next batch' line asks for; outcome: what
\* _benchmark_single_asset returns for each asset
BenchmarkAllAssets(start_from_asset, outcome) ==
    /\ \/ call.op = "init" /\ start_from_asset = 0
       \/ call.op = "benchmark_all_assets" /\ ret.next_batch # 0
              /\ start_from_asset = ret.next_batch
    /\ LET assets == Batch(AllAssets, start_from_asset, call.top_n_assets)
       IN /\ log' = log \o assets
          /\ ret' = BatchReply(AllAssets, assets, Summaries(assets, outcome))
    /\ call' = [op |-> "benchmark_all_assets", top_n_assets |-> call.top_n_assets,
                start_from_asset |-> start_from_asset]
    /\ UNCHANGED <<config, HAS_STATSMODELS, quicksort_ties, signals, results>>
    /\ UNCHANGED <<sys_stdout, futures, completed_count, count_lock, bench>>

NextPagination ==
    \E start_from_asset \in 0..ListedAssets, outcome \in [1..ListedAssets -> {"None", "summary"}] :
        BenchmarkAllAssets(start_from_asset, outcome)

SpecPagination == InitPagination /\ [][NextPagination]_vars

\* C26 (as claimed): along a chain with top_n_assets = k > 0 the assets
\* benchmarked so far are the first assets of the sorted list, each once; a
\* reply to a batch that does not end the list names the next asset as the
\* next batch, whatever the assets' outcomes, and the reply to the batch that
\* ends the list states that all assets are processed.
C26_PaginationCovers ==
    (call.op = "benchmark_all_assets" /\ call.top_n_assets > 0) =>
        /\ log = SubSeq(AllAssets, 1, Len(log))
        /\ IF Len(log) < ListedAssets
           THEN ret.next_batch = AllAssets[Len(log) + 1]
           ELSE ret.all_processed

-----------------------------------------------------------------------------
(* Horizon labels and by_period (SpecLabels) *)

\* horizons in 5-minute periods: 5min; 1hr three times; 2hr; 1day twice
LabelHorizons == <<1, 12, 13, 23, 24, 288, 575>>
HorizonSet == {LabelHorizons[i] : i \in DOMAIN LabelHorizons}

\* forward_periods of one or two horizons, in any order, repeats included
ForwardPeriods == {<<p>> : p \in HorizonSet} \cup (HorizonSet \X HorizonSet)

\* how the coefficients vary over the horizons
Patterns == {"rising", "falling", "alternating"}

\* the coefficients of the horizon at position i of LabelHorizons, all different
PatternIC(pattern, i) ==
    CASE pattern = "rising" -> 100 * i
      [] pattern = "falling" -> 900 - 100 * i
      [] pattern = "alternating" -> IF i % 2 = 0 THEN -100 * i ELSE 50 * i

HorizonSeries(pattern) ==
    [SeriesStrong EXCEPT
        !.ic = [p \in HorizonSet |->
                   LET i == CHOOSE j \in DOMAIN LabelHorizons : LabelHorizons[j] = p
                   IN ICFrame(12, PatternIC(pattern, i), PatternIC(pattern, i) + 1,
                              PatternIC(pattern, i), 100)]]

InitLabels ==
    /\ \E fwd_periods \in ForwardPeriods :
           config = [SmallConfig EXCEPT !.forward_periods = fwd_periods]
    /\ HAS_STATSMODELS = TRUE
    /\ quicksort_ties = "kept"
    /\ NoBatch
    /\ signals = <<>>
    /\ results = <<>>
    /\ \E pattern \in Patterns :
           call = [op |-> "evaluate_signal", series |-> HorizonSeries(pattern)]
    /\ ret = NoRet

NextLabels == EvaluateSignal

SpecLabels == InitLabels /\ [][NextLabels]_vars

\* the label the claim gives a horizon of p periods
ClaimedLabel(p) ==
    IF p * 5 < 60 THEN <<p * 5, "min">>
    ELSE IF p * 5 < 1440 THEN <<(p * 5) \div 60, "hr">>
    ELSE <<(p * 5) \div 1440, "day">>

\* the position in forward_periods of the last horizon with the given label
LastWithLabel(label) ==
    CHOOSE i \in DOMAIN config.forward_periods :
        /\ ClaimedLabel(config.forward_periods[i]) = label
        /\ \A j \in DOMAIN config.forward_periods :
               ClaimedLabel(config.forward_periods[j]) = label => j <= i

\* C28: by_period holds one entry per horizon label, the label being the
\* integer division of the horizon's minutes; the entry of a label holds the
\* values of the last configured horizon with that label, and the best-of-
\* horizon aggregates are taken from the entries only, so a horizon whose entry
\* was overwritten takes no part in them.
C28_LabelsCollapse ==
    Evaluated =>
        LET fwd_periods == config.forward_periods
            labels == {ClaimedLabel(fwd_periods[i]) : i \in DOMAIN fwd_periods}
            by_period == ret.by_period
            entries == {by_period[i] : i \in DOMAIN by_period}
        IN /\ Len(by_period) = Cardinality(labels)
           /\ {e.label : e \in entries} = labels
           /\ \A e \in entries :
                  LET p == fwd_periods[LastWithLabel(e.label)]
                      ic == calculate_ic(call.series.ic[p], config.rolling_window)
                  IN /\ e.period = p
                     /\ e.pearson_ic = ic.pearson_ic
                     /\ e.spearman_ic = ic.spearman_ic
                     /\ e.ic_ir = ic.ic_ir
           /\ ret.metrics.best_pearson_ic \in {e.pearson_ic : e \in entries}
           /\ ret.metrics.best_spearman_ic \in {e.spearman_ic : e \in entries}
           /\ ret.metrics.best_ic_ir \in {e.ic_ir : e \in entries}

\* C28 witness: horizons 12 and 13 are both '1hr'; the one entry holds horizon
\* 13, and the larger coefficient of horizon 12 is not the best reported
C28_Witness ==
    /\ Evaluated
    /\ config.forward_periods = <<12, 13>>
    /\ Len(ret.by_period) = 1
    /\ ret.by_period[1].period = 13
    /\ ret.by_period[1].label = <<1, "hr">>
    /\ FAbs(call.series.ic[12].spearman) > FAbs(call.series.ic[13].spearman)
    /\ ret.metrics.best_spearman_ic = call.series.ic[13].spearman

-----------------------------------------------------------------------------
(* The segments of the trend (SpecTrend) *)

\* the numbers of rows with no missing column from which a trend is computed
TrendRows == (TrendMinRows + 1)..(2 * TrendMinRows + 1)

TrendInputs ==
    {[RollingOf(full, extra, shape) EXCEPT !.index_len = full + extra + 4] :
        full \in TrendRows, extra \in ExtraScores, shape \in ScoreShapes}

InitTrend ==
    /\ config = SmallConfig
    /\ HAS_STATSMODELS = TRUE
    /\ quicksort_ties = "kept"
    /\ NoBatch
    /\ signals = <<>>
    /\ results = <<>>
    /\ \E rolling_df \in TrendInputs :
           call = [op |-> "get_current_power_stats", rolling_df |-> rolling_df]
    /\ ret = NoRet

NextTrend == GetCurrentPowerStats

SpecTrend == InitTrend /\ [][NextTrend]_vars

\* ceil(n / d)
Ceil(n, d) == (n + d - 1) \div d

\* C30: for n > 20 rows with no missing column, the recent segment is the last
\* ceil(n/10) points of the score series and the previous segment the
\* ceil(n/5) - ceil(n/10) points just before it; both are non-empty, they are
\* adjacent and disjoint, and ic_trend is the difference of their means.
C30_TrendSegments ==
    (PowerDone /\ call.rolling_df.full > 20) =>
        LET n == call.rolling_df.full
            score == call.rolling_df.score
            len == Len(score)
            recent == (len - Ceil(n, 10) + 1)..len
            previous == (len - Ceil(n, 5) + 1)..(len - Ceil(n, 10))
        IN /\ SliceLo(len, (0 - n) \div 10) = len - Ceil(n, 10) + 1
           /\ SliceLo(len, (0 - n) \div 5) = len - Ceil(n, 5) + 1
           /\ SliceHi(len, (0 - n) \div 10) = len - Ceil(n, 10)
           /\ recent # {} /\ previous # {}
           /\ recent \subseteq DOMAIN score /\ previous \subseteq DOMAIN score
           /\ recent \cap previous = {}
           /\ \A i \in recent : i - 1 \in recent \cup previous
           /\ Cardinality(recent) = Ceil(n, 10)
           /\ Cardinality(previous) = Ceil(n, 5) - Ceil(n, 10)
           /\ ret.ic_trend =
                  [nan |-> FALSE,
                   num |-> SumRange(score, len - Ceil(n, 10) + 1, len) * Cardinality(previous)
                             - SumRange(score, len - Ceil(n, 5) + 1, len - Ceil(n, 10))
                                 * Cardinality(recent),
                   den |-> Cardinality(recent) * Cardinality(previous)]

\* C30 witness: 21 full rows; the recent segment has 3 points and the previous
\* one 2, of a rising score
C30_Witness ==
    /\ PowerDone
    /\ call.rolling_df.full = 21
    /\ ret.ic_trend.den = 3 * 2
    /\ ret.ic_trend.num > 0
    /\ ret.is_improving

====
